---- MODULE Spec2Model ----
(***************************************************************************)
(* A state-machine model of the wlroots scene graph                        *)
(* (types/scene/wlr_scene.c): the node tree, the damage engine, the        *)
(* output-membership engine and the per-output commit pipeline.            *)
(*                                                                         *)
(* Pointers are small integers (0 is NULL).  A node, a scene-output and a  *)
(* platform buffer are compared only for identity in the source, so each   *)
(* allocation takes the smallest free handle: a handle freed by a destroy  *)
(* is handed out again by the next create, as malloc may do.               *)
(* `observed` names what the host listens to: a signal with a listener     *)
(* appends to `events` a record of what the listener, reading the node at  *)
(* that moment, sees; "damage", "calls" and "op" stand for recording the   *)
(* damage accumulators' adds, the output's and renderer's calls and the    *)
(* name of the operation.  Each specification attaches what its claims     *)
(* read.                                                                   *)
(***************************************************************************)
EXTENDS Integers, Sequences, FiniteSets, TLC

\* ------------------------------------------------------------ bounds
\* Non-root nodes that may be live at once (SpecTree).
MaxNodes == 3
\* Non-root nodes that may be live at once in Spec.
MaxMemberNodes == 2
\* Non-root nodes that may be live at once in SpecCommit.
MaxCommitNodes == 2
\* Cells of an output a highlight region is made of.
MaxRegionCells == 1
\* Free indices below the largest used one that SpecIdx lets exist.
MaxHoles == 1
\* Non-root nodes that may be live at once in SpecSig.
MaxSigNodes == 2
\* Buffer nodes that may be live at once in Spec.
MaxSceneBuffers == 1
\* Largest effective height of an output in Spec.
MaxOutputHeight == 1
\* Largest y coordinate a caller passes in Spec.
MaxCoordY == 0
\* Largest destination width/height a caller passes.
MaxDst == 1
\* Scene-outputs that may be live at once in Spec.
MaxOutputs == 2
\* Largest relative coordinate a caller passes (node and output positions).
MaxCoord == 1
\* Largest width/height of a platform buffer, a rect or an output.
MaxDim == 2
\* Platform buffers the host owns.
MaxBuffers == 2
\* Largest enum wl_output_transform value a caller passes.
MaxTransform == 1
\* SpecDamage: the nodes besides the root
MaxDamageNodes == 3
\* SpecSet: the nodes besides the root; the colours of a rect
MaxSetNodes == 2
\* SpecOrder: the nodes besides the root
MaxOrderNodes == 4
\* SpecLock: the nodes besides the root
MaxLockNodes == 3
\* SpecRender: the nodes besides the root
MaxRenderNodes == 2
MaxColor == 1
\* SpecQuery: the nodes besides the root; the largest x a point is probed at
MaxQueryNodes == 3
MaxQueryCoord == 3
\* SpecCoords: the nodes besides the root
MaxCoordsNodes == 2
\* SpecMove: the nodes besides the root; the scene-outputs
MaxMoveNodes == 2
MaxMoveOutputs == 2
\* SpecTexture: the scene-outputs
MaxTextureOutputs == 2
\* SpecScale: the largest coordinate and length of a box; the largest scale, in halves
MaxScaleCoord == 3
MaxScale == 5
\* SpecHighlight: the cells of an output a highlight region is made of
MaxHighlightCells == 3
\* SpecPresent: the nodes besides the root, and the outputs
MaxPresentNodes == 2
MaxPresentOutputs == 2

\* ------------------------------------------------------------ program constants
\* assert(scene_output->index < 64): width of the active_outputs bitset.
WLR_SCENE_MAX_OUTPUTS == 64
HIGHLIGHT_DAMAGE_FADEOUT_TIME == 250
\* enum wl_output_transform: bit 0 is WL_OUTPUT_TRANSFORM_90.
WL_OUTPUT_TRANSFORM_90 == 1

NULL == 0
\* &scene->tree.node, the node wlr_scene_create makes.
Root == 1

NodeIds == 1..((IF MaxNodes >= MaxOrderNodes THEN MaxNodes ELSE MaxOrderNodes) + 1)
BufferIds == 1..MaxBuffers
Dims == 1..MaxDim
\* Output scale in halves (2 is 1.0): the source holds a float.
Scales == {2}
Transforms == 0..MaxTransform

VARIABLES
    nodes,      \* node handle -> struct wlr_scene_node and its variant payload
    outputs,    \* scene->outputs, as the list is linked (head first)
    debug_damage_option, \* scene->debug_damage_option
    events,     \* signals emitted by the last operation, in order
    damage_highlight_regions, \* scene->damage_highlight_regions (head = newest)
    damage,     \* wlr_output_damage_add* calls of the last operation, in order
    calls,      \* calls into the output and the renderer by the last operation
    ret,        \* the last operation: its name, how it ended, what it returned
    n_locks,    \* wlr_buffer.n_locks of each platform buffer
    observed    \* the signals with a listener, and what else the host records

vars == <<nodes, outputs, debug_damage_option, damage_highlight_regions, events, damage, calls, ret, n_locks, observed>>

\* ------------------------------------------------------------ platform types
\* struct wlr_buffer: the host's buffers, with their fixed sizes.
wlr_buffer(b) ==
    [width |-> MaxDim - ((b - 1) % MaxDim), height |-> (((b - 1) \div MaxDim) % MaxDim) + 1]

Max(a, b) == IF a >= b THEN a ELSE b
Min(a, b) == IF a <= b THEN a ELSE b

wlr_box_empty(box) == box.width <= 0 \/ box.height <= 0

\* wlr_box_intersection: false and an empty dest when either box is empty or
\* the boxes do not overlap.
wlr_box_intersection(a, b) ==
    IF wlr_box_empty(a) \/ wlr_box_empty(b)
    THEN [ok |-> FALSE, x |-> 0, y |-> 0, width |-> 0, height |-> 0]
    ELSE LET x1 == Max(a.x, b.x)
             y1 == Max(a.y, b.y)
             x2 == Min(a.x + a.width, b.x + b.width)
             y2 == Min(a.y + a.height, b.y + b.height)
         IN [ok |-> x2 - x1 > 0 /\ y2 - y1 > 0,
             x |-> x1, y |-> y1, width |-> x2 - x1, height |-> y2 - y1]

EmptyFBox == [x |-> 0, y |-> 0, width |-> 0, height |-> 0]
wlr_fbox_empty(box) == box.width <= 0 \/ box.height <= 0

\* wlr_buffer_lock / wlr_buffer_unlock: the lock count of the buffer goes up
\* or down by one; unlocking NULL does nothing.
wlr_buffer_lock(st, buffer) == [st EXCEPT !.n_locks[buffer] = @ + 1]

wlr_buffer_unlock(st, buffer) ==
    IF buffer = NULL THEN st ELSE [st EXCEPT !.n_locks[buffer] = @ - 1]

\* wlr_texture_destroy: a texture is named by the buffer it was made from;
\* the call is recorded when the textures are watched.
wlr_texture_destroy(st, texture) ==
    IF "texture" \notin st.observed THEN st
    ELSE [st EXCEPT !.calls = Append(@,
             [fn |-> "wlr_texture_destroy", output |-> NULL, arg |-> texture,
              result |-> TRUE])]

\* The host's buffers that are client buffers and carry a texture of their own.
ClientBuffers == {MaxBuffers}
wlr_client_buffer_get(buffer) == buffer \in ClientBuffers

\* ------------------------------------------------------------ node records
FreeNode ==
    [type |-> "free", parent |-> NULL, x |-> 0, y |-> 0, enabled |-> FALSE,
     children |-> <<>>, width |-> 0, height |-> 0, color |-> 0,
     buffer |-> NULL, point_accepts_input |-> <<>>, src_box |-> EmptyFBox, dst_width |-> 0, dst_height |-> 0,
     transform |-> 0, texture |-> NULL, active_outputs |-> {}, primary_output |-> NULL]

\* scene_node_init on calloc'ed memory: every payload field is zero.
scene_node_init(type, parent) ==
    [FreeNode EXCEPT !.type = type, !.parent = parent, !.enabled = TRUE]

Live(ns, n) == ns[n].type # "free"
LiveNodes(ns) == {n \in NodeIds : Live(ns, n)}

\* ------------------------------------------------------------ coordinates
RECURSIVE wlr_scene_node_coords_root_origin(_, _)
\* Mutant: the walk stops below the root, whose own offset and flag are left out.
wlr_scene_node_coords_root_origin(ns, n) ==
    IF ns[n].parent = NULL
    THEN [lx |-> 0, ly |-> 0, enabled |-> TRUE]
    ELSE LET up == wlr_scene_node_coords_root_origin(ns, ns[n].parent)
         IN [lx |-> up.lx + ns[n].x, ly |-> up.ly + ns[n].y,
             enabled |-> ns[n].enabled /\ up.enabled]

RECURSIVE wlr_scene_node_coords(_, _)
\* [lx, ly, enabled]: the sums along the parent chain, the AND of the flags.
wlr_scene_node_coords(ns, n) ==
    IF ns[n].parent = NULL
    THEN [lx |-> ns[n].x, ly |-> ns[n].y, enabled |-> ns[n].enabled]
    ELSE LET up == wlr_scene_node_coords(ns, ns[n].parent)
         IN [lx |-> up.lx + ns[n].x, ly |-> up.ly + ns[n].y,
             enabled |-> ns[n].enabled /\ up.enabled]

\* transform & WL_OUTPUT_TRANSFORM_90
Has90(transform) == (transform \div WL_OUTPUT_TRANSFORM_90) % 2 = 1

scene_node_get_size(node) ==
    IF node.type = "rect" THEN [width |-> node.width, height |-> node.height]
    ELSE IF node.type = "buffer" THEN
        IF node.dst_width > 0 /\ node.dst_height > 0
        THEN [width |-> node.dst_width, height |-> node.dst_height]
        ELSE IF node.buffer # NULL
        THEN IF Has90(node.transform)
             THEN [width |-> wlr_buffer(node.buffer).height,
                   height |-> wlr_buffer(node.buffer).width]
             ELSE [width |-> wlr_buffer(node.buffer).width,
                   height |-> wlr_buffer(node.buffer).height]
        ELSE [width |-> 0, height |-> 0]
    ELSE [width |-> 0, height |-> 0]

\* The box of node n in scene coordinates.
NodeBox(ns, n) ==
    LET c == wlr_scene_node_coords(ns, n)
        s == scene_node_get_size(ns[n])
    IN [x |-> c.lx, y |-> c.ly, width |-> s.width, height |-> s.height]

\* The viewport of a scene-output: its position and effective resolution.
OutputBox(so) == [x |-> so.x, y |-> so.y, width |-> so.width, height |-> so.height]

\* ------------------------------------------------------------ signals
\* wlr_signal_emit_safe: the record holds the signal, its node and argument,
\* the emitting node's membership and box as they are at this moment, and
\* the number of damage calls the operation has made so far.
wlr_signal_emit_safe(st, sig, n, arg) ==
    LET isbuf == n # NULL /\ st.nodes[n].type = "buffer"
    IN IF sig \notin st.observed THEN st
       ELSE [st EXCEPT !.events = Append(@,
          [sig |-> sig, node |-> n, arg |-> arg,
           live |-> n = NULL \/ Live(st.nodes, n),
           damaged |-> Len(st.damage),
           active |-> IF isbuf THEN st.nodes[n].active_outputs ELSE {},
           primary |-> IF isbuf THEN st.nodes[n].primary_output ELSE NULL,
           box |-> IF isbuf THEN NodeBox(st.nodes, n) ELSE EmptyFBox])]

\* ------------------------------------------------------------ output membership
RECURSIVE update_outputs_scan_last_wins(_, _, _, _, _, _, _)
\* Mutant: overlap >= largest_overlap, so the last of several equal overlaps
\* becomes the primary output.
update_outputs_scan_last_wins(st, b, buffer_box, ignore, i, largest_overlap, active_outputs) ==
    IF i > Len(st.outputs) THEN [st |-> st, active_outputs |-> active_outputs]
    ELSE LET scene_output == st.outputs[i]
             inter == wlr_box_intersection(buffer_box, OutputBox(scene_output))
             overlap == inter.width * inter.height
         IN IF scene_output.id = ignore \/ ~inter.ok
            THEN update_outputs_scan_last_wins(st, b, buffer_box, ignore, i + 1,
                     largest_overlap, active_outputs)
            ELSE update_outputs_scan_last_wins(
                     IF overlap >= largest_overlap
                     THEN [st EXCEPT !.nodes[b].primary_output = scene_output.id]
                     ELSE st,
                     b, buffer_box, ignore, i + 1,
                     Max(overlap, largest_overlap),
                     active_outputs \cup {scene_output.index})

RECURSIVE update_outputs_scan(_, _, _, _, _, _, _)
\* The first loop of scene_buffer_update_outputs, from list position i on:
\* primary_output is written as the scan goes, active_outputs is a local.
update_outputs_scan(st, b, buffer_box, ignore, i, largest_overlap, active_outputs) ==
    IF i > Len(st.outputs) THEN [st |-> st, active_outputs |-> active_outputs]
    ELSE LET scene_output == st.outputs[i]
             inter == wlr_box_intersection(buffer_box, OutputBox(scene_output))
             overlap == inter.width * inter.height
         IN IF scene_output.id = ignore \/ ~inter.ok
            THEN update_outputs_scan(st, b, buffer_box, ignore, i + 1,
                     largest_overlap, active_outputs)
            ELSE update_outputs_scan(
                     IF overlap > largest_overlap
                     THEN [st EXCEPT !.nodes[b].primary_output = scene_output.id]
                     ELSE st,
                     b, buffer_box, ignore, i + 1,
                     Max(overlap, largest_overlap),
                     active_outputs \cup {scene_output.index})

RECURSIVE update_outputs_signals_no_before(_, _, _, _, _)
\* Mutant: every listed output the node is on gets output_enter, whether or
\* not the node was on it before.
update_outputs_signals_no_before(st, b, active_outputs, old_active, i) ==
    IF i > Len(st.outputs) THEN st
    ELSE LET scene_output == st.outputs[i]
             intersects == scene_output.index \in active_outputs
             intersects_before == scene_output.index \in old_active
             st1 == IF intersects
                    THEN wlr_signal_emit_safe(st, "output_enter", b, scene_output.id)
                    ELSE IF ~intersects /\ intersects_before
                    THEN wlr_signal_emit_safe(st, "output_leave", b, scene_output.id)
                    ELSE st
         IN update_outputs_signals_no_before(st1, b, active_outputs, old_active, i + 1)

RECURSIVE update_outputs_signals(_, _, _, _, _)
\* The second loop: one enter or leave per output whose bit changed.
update_outputs_signals(st, b, active_outputs, old_active, i) ==
    IF i > Len(st.outputs) THEN st
    ELSE LET scene_output == st.outputs[i]
             intersects == scene_output.index \in active_outputs
             intersects_before == scene_output.index \in old_active
             st1 == IF intersects /\ ~intersects_before
                    THEN wlr_signal_emit_safe(st, "output_enter", b, scene_output.id)
                    ELSE IF ~intersects /\ intersects_before
                    THEN wlr_signal_emit_safe(st, "output_leave", b, scene_output.id)
                    ELSE st
         IN update_outputs_signals(st1, b, active_outputs, old_active, i + 1)

\* Mutant: the signals are emitted before active_outputs is stored.
scene_buffer_update_outputs_late_store(st, b, lx, ly, ignore) ==
    LET size == scene_node_get_size(st.nodes[b])
        buffer_box == [x |-> lx, y |-> ly, width |-> size.width, height |-> size.height]
        st0 == [st EXCEPT !.nodes[b].primary_output = NULL]
        scan == update_outputs_scan(st0, b, buffer_box, ignore, 1, 0, {})
        old_active == st.nodes[b].active_outputs
        st1 == update_outputs_signals(scan.st, b, scan.active_outputs, old_active, 1)
    IN [st1 EXCEPT !.nodes[b].active_outputs = scan.active_outputs]

scene_buffer_update_outputs(st, b, lx, ly, ignore) ==
    LET size == scene_node_get_size(st.nodes[b])
        buffer_box == [x |-> lx, y |-> ly, width |-> size.width, height |-> size.height]
        st0 == [st EXCEPT !.nodes[b].primary_output = NULL]
        scan == update_outputs_scan(st0, b, buffer_box, ignore, 1, 0, {})
        old_active == st.nodes[b].active_outputs
        st1 == [scan.st EXCEPT !.nodes[b].active_outputs = scan.active_outputs]
    IN update_outputs_signals(st1, b, scan.active_outputs, old_active, 1)

RECURSIVE _scene_node_update_outputs(_, _, _, _, _)
RECURSIVE update_outputs_children(_, _, _, _, _, _)
update_outputs_children(st, children, i, lx, ly, ignore) ==
    IF i > Len(children) THEN st
    ELSE LET child == children[i]
         IN update_outputs_children(
                _scene_node_update_outputs(st, child, lx + st.nodes[child].x,
                    ly + st.nodes[child].y, ignore),
                children, i + 1, lx, ly, ignore)

_scene_node_update_outputs(st, n, lx, ly, ignore) ==
    IF st.nodes[n].type = "buffer"
    THEN scene_buffer_update_outputs(st, n, lx, ly, ignore)
    ELSE IF st.nodes[n].type = "tree"
    THEN update_outputs_children(st, st.nodes[n].children, 1, lx, ly, ignore)
    ELSE st

\* Mutant: starts the walk from the node's own x, y instead of its absolute
\* coordinates.
scene_node_update_outputs_relative(st, n, ignore) ==
    _scene_node_update_outputs(st, n, st.nodes[n].x, st.nodes[n].y, ignore)

scene_node_update_outputs(st, n, ignore) ==
    LET c == wlr_scene_node_coords(st.nodes, n)
    IN _scene_node_update_outputs(st, n, c.lx, c.ly, ignore)

\* ------------------------------------------------------------ damage
\* round(v / 2), halves away from zero, as C's round().
RoundHalves(v) ==
    IF v >= 0 THEN (v + 1) \div 2 ELSE -((1 - v) \div 2)

scale_length(length, offset, scale) ==
    RoundHalves((offset + length) * scale) - RoundHalves(offset * scale)

\* Mutant: the width and the height are rounded on their own.
scale_box_each_length(box, scale) ==
    [x |-> RoundHalves(box.x * scale), y |-> RoundHalves(box.y * scale),
     width |-> RoundHalves(box.width * scale),
     height |-> RoundHalves(box.height * scale)]

scale_box(box, scale) ==
    [x |-> RoundHalves(box.x * scale), y |-> RoundHalves(box.y * scale),
     width |-> scale_length(box.width, box.x, scale),
     height |-> scale_length(box.height, box.y, scale)]

wlr_output_damage_add_box(st, scene_output, box) ==
    IF "damage" \notin st.observed THEN st ELSE
    [st EXCEPT !.damage = Append(@, [output |-> scene_output.id, whole |-> FALSE, box |-> box])]

wlr_output_damage_add_whole(st, scene_output) ==
    IF "damage" \notin st.observed THEN st ELSE
    [st EXCEPT !.damage = Append(@, [output |-> scene_output.id, whole |-> TRUE, box |-> EmptyFBox])]

RECURSIVE damage_whole_outputs(_, _, _, _, _, _)
damage_whole_outputs(st, i, lx, ly, width, height) ==
    IF i > Len(st.outputs) THEN st
    ELSE LET scene_output == st.outputs[i]
             box == [x |-> lx - scene_output.x, y |-> ly - scene_output.y,
                     width |-> width, height |-> height]
         IN damage_whole_outputs(
                wlr_output_damage_add_box(st, scene_output,
                    scale_box(box, scene_output.scale)),
                i + 1, lx, ly, width, height)

RECURSIVE _scene_node_damage_whole(_, _, _, _)
RECURSIVE damage_whole_children(_, _, _, _, _)
damage_whole_children(st, children, i, lx, ly) ==
    IF i > Len(children) THEN st
    ELSE LET child == children[i]
         IN damage_whole_children(
                _scene_node_damage_whole(st, child, lx + st.nodes[child].x,
                    ly + st.nodes[child].y),
                children, i + 1, lx, ly)

_scene_node_damage_whole(st, n, lx, ly) ==
    IF ~st.nodes[n].enabled THEN st
    ELSE LET st1 == IF st.nodes[n].type = "tree"
                    THEN damage_whole_children(st, st.nodes[n].children, 1, lx, ly)
                    ELSE st
             size == scene_node_get_size(st.nodes[n])
         IN damage_whole_outputs(st1, 1, lx, ly, size.width, size.height)

\* Mutant: the flags of the node's ancestors are not looked at.
scene_node_damage_whole_own_flag(st, n) ==
    LET c == wlr_scene_node_coords(st.nodes, n)
    IN IF Len(st.outputs) = 0 THEN st
       ELSE _scene_node_damage_whole(st, n, c.lx, c.ly)

scene_node_damage_whole(st, n) ==
    LET c == wlr_scene_node_coords(st.nodes, n)
    IN IF Len(st.outputs) = 0 \/ ~c.enabled THEN st
       ELSE _scene_node_damage_whole(st, n, c.lx, c.ly)

\* ------------------------------------------------------------ list helpers
\* wl_list_remove of element e from list s.
ListRemove(s, e) == SelectSeq(s, LAMBDA v : v # e)

\* wl_list_insert after the first pos elements of s.
ListInsertAt(s, pos, e) == SubSeq(s, 1, pos) \o <<e>> \o SubSeq(s, pos + 1, Len(s))

\* Position of e in s (0 when absent).
IndexOf(s, e) == IF \E i \in 1..Len(s) : s[i] = e
                 THEN CHOOSE i \in 1..Len(s) : s[i] = e ELSE 0

\* wl_list_remove(&node->link): out of its parent's children list.
Unlink(st, n) ==
    LET p == st.nodes[n].parent
    IN IF p = NULL THEN st
       ELSE [st EXCEPT !.nodes[p].children = ListRemove(@, n)]

\* wl_list_insert(parent->children.prev, &node->link): on top of the siblings.
LinkOnTop(st, n, p) == [st EXCEPT !.nodes[p].children = Append(@, n)]

\* ------------------------------------------------------------ scene-output lifecycle
RECURSIVE output_create_scan_append(_, _, _)
\* Mutant: the walk does not stop at a gap, so the new output goes after the
\* last listed one.
output_create_scan_append(outs, i, prev_output_index) ==
    IF i > Len(outs)
    THEN [prev_output_index |-> prev_output_index, pos |-> i - 1]
    ELSE output_create_scan_append(outs, i + 1, outs[i].index)

RECURSIVE output_create_scan(_, _, _)
\* The list walk of wlr_scene_output_create: stops at the first gap.
output_create_scan(outs, i, prev_output_index) ==
    IF i > Len(outs) \/ prev_output_index + 1 # outs[i].index
    THEN [prev_output_index |-> prev_output_index, pos |-> i - 1]
    ELSE output_create_scan(outs, i + 1, outs[i].index)

\* The handle calloc returns for a new scene-output.
NewOutputId(outs) ==
    CHOOSE id \in 1..(Len(outs) + 1) : \A i \in 1..Len(outs) : outs[i].id # id

OutputById(outs, id) == outs[IndexOf([i \in 1..Len(outs) |-> outs[i].id], id)]

\* wlr_scene_output_create after its assert; output is the host's wlr_output.
wlr_scene_output_create(st, output) ==
    LET scan == output_create_scan(st.outputs, 1, -1)
        scene_output == [id |-> NewOutputId(st.outputs),
                         index |-> scan.prev_output_index + 1,
                         x |-> 0, y |-> 0,
                         width |-> output.width, height |-> output.height,
                         scale |-> output.scale, transform |-> output.transform,
                         prev_scanout |-> FALSE]
        st1 == [st EXCEPT !.outputs = ListInsertAt(@, scan.pos, scene_output)]
        st2 == wlr_output_damage_add_whole(st1, scene_output)
    IN scene_node_update_outputs(st2, Root, NULL)

\* Mutant: the recomputation does not skip the output being destroyed.
wlr_scene_output_destroy_no_ignore(st, id) ==
    LET st1 == wlr_signal_emit_safe(st, "scene_output_destroy", NULL, id)
        st2 == scene_node_update_outputs(st1, Root, NULL)
    IN [st2 EXCEPT !.outputs = SelectSeq(@, LAMBDA so : so.id # id)]

wlr_scene_output_destroy(st, id) ==
    LET st1 == wlr_signal_emit_safe(st, "scene_output_destroy", NULL, id)
        st2 == scene_node_update_outputs(st1, Root, id)
    IN [st2 EXCEPT !.outputs = SelectSeq(@, LAMBDA so : so.id # id)]

RECURSIVE destroy_all_outputs(_)
\* wl_list_for_each_safe over scene->outputs in the destroy of the root.
destroy_all_outputs(st) ==
    IF Len(st.outputs) = 0 THEN st
    ELSE destroy_all_outputs(wlr_scene_output_destroy(st, st.outputs[1].id))

\* ------------------------------------------------------------ node destroy
RECURSIVE destroy_leave_loop(_, _, _, _)
\* output_leave for every listed output whose bit is in `active`.
destroy_leave_loop(st, n, active, i) ==
    IF i > Len(st.outputs) THEN st
    ELSE destroy_leave_loop(
             IF st.outputs[i].index \in active
             THEN wlr_signal_emit_safe(st, "output_leave", n, st.outputs[i].id)
             ELSE st,
             n, active, i + 1)

RECURSIVE wlr_scene_node_destroy(_, _)
RECURSIVE destroy_children(_, _)
\* wl_list_for_each_safe over the children: each destroy unlinks its node.
destroy_children(st, n) ==
    IF Len(st.nodes[n].children) = 0 THEN st
    ELSE destroy_children(wlr_scene_node_destroy(st, st.nodes[n].children[1]), n)

\* Mutant: the destroy signal is emitted after the children are destroyed.
wlr_scene_node_destroy_post_order(st, n) ==
    LET st1 == scene_node_damage_whole(st, n)
        st2 == IF st1.nodes[n].type = "buffer"
               THEN wlr_buffer_unlock(
                        wlr_texture_destroy(
                            destroy_leave_loop(st1, n, st1.nodes[n].active_outputs, 1),
                            st1.nodes[n].texture),
                        st1.nodes[n].buffer)
               ELSE IF st1.nodes[n].type = "tree"
               THEN destroy_children(
                        IF n = Root
                        THEN [destroy_all_outputs(st1) EXCEPT
                                 !.damage_highlight_regions = <<>>]
                        ELSE st1,
                        n)
               ELSE st1
        st3 == wlr_signal_emit_safe(st2, "destroy", n, NULL)
        st4 == Unlink(st3, n)
    IN [st4 EXCEPT !.nodes[n] = FreeNode]

wlr_scene_node_destroy(st, n) ==
    LET st1 == scene_node_damage_whole(st, n)
        st2 == wlr_signal_emit_safe(st1, "destroy", n, NULL)
        st3 == IF st2.nodes[n].type = "buffer"
               THEN wlr_buffer_unlock(
                        wlr_texture_destroy(
                            destroy_leave_loop(st2, n, st2.nodes[n].active_outputs, 1),
                            st2.nodes[n].texture),
                        st2.nodes[n].buffer)
               ELSE IF st2.nodes[n].type = "tree"
               THEN destroy_children(
                        IF n = Root
                        THEN [destroy_all_outputs(st2) EXCEPT
                                 !.damage_highlight_regions = <<>>]
                        ELSE st2,
                        n)
               ELSE st2
        st4 == Unlink(st3, n)
    IN [st4 EXCEPT !.nodes[n] = FreeNode]

\* ------------------------------------------------------------ operations
\* The state an operation starts from: the logs of the last one are dropped.
Begin ==
    [nodes |-> nodes, outputs |-> outputs,
     damage_highlight_regions |-> damage_highlight_regions,
     events |-> <<>>, damage |-> <<>>, calls |-> <<>>, n_locks |-> n_locks,
     observed |-> observed]

Finish(st, r) ==
    /\ nodes' = st.nodes
    /\ outputs' = st.outputs
    /\ damage_highlight_regions' = st.damage_highlight_regions
    /\ events' = st.events
    /\ damage' = st.damage
    /\ calls' = st.calls
    /\ n_locks' = st.n_locks
    /\ ret' = r
    /\ UNCHANGED <<debug_damage_option, observed>>

Ok(op) == [op |-> IF "op" \in observed THEN op ELSE "", status |-> "ok", value |-> TRUE]
\* A failed assert: the process is gone, nothing after it runs.
Abort(op) == Finish(Begin, [op |-> op, status |-> "abort", value |-> FALSE])

\* The scene exists and the process has not aborted.
Running == ret.status # "abort" /\ Live(nodes, Root)

\* cap: the number of non-root nodes the specification lets live at once.
HasFreeNode(cap) == Cardinality(LiveNodes(nodes)) <= cap
NewNodeId == CHOOSE n \in NodeIds : ~Live(nodes, n) /\ \A m \in 1..(n - 1) : Live(nodes, m)

Trees == {n \in NodeIds : nodes[n].type = "tree"}
Rects == {n \in NodeIds : nodes[n].type = "rect"}
SceneBuffers == {n \in NodeIds : nodes[n].type = "buffer"}
OutputIds == {outputs[i].id : i \in 1..Len(outputs)}

wlr_scene_tree_create(parent, cap) ==
    /\ Running /\ HasFreeNode(cap) /\ parent \in Trees
    /\ LET n == NewNodeId
           st1 == [Begin EXCEPT !.nodes[n] = scene_node_init("tree", parent)]
       IN Finish(LinkOnTop(st1, n, parent), Ok("tree_create"))

wlr_scene_rect_create(parent, width, height, cap) ==
    /\ Running /\ HasFreeNode(cap) /\ parent \in Trees
    /\ LET n == NewNodeId
           st1 == [Begin EXCEPT !.nodes[n] =
                      [scene_node_init("rect", parent) EXCEPT
                          !.width = width, !.height = height]]
           st2 == LinkOnTop(st1, n, parent)
       IN Finish(scene_node_damage_whole(st2, n), Ok("rect_create"))

\* Mutant: the node keeps the buffer without locking it.
wlr_scene_buffer_create_no_lock(parent, buffer, cap, buffer_cap) ==
    /\ Running /\ HasFreeNode(cap) /\ parent \in Trees
    /\ Cardinality(SceneBuffers) < buffer_cap
    /\ LET n == NewNodeId
           st1 == [Begin EXCEPT !.nodes[n] =
                      [scene_node_init("buffer", parent) EXCEPT !.buffer = buffer]]
           st2 == LinkOnTop(st1, n, parent)
           st3 == scene_node_damage_whole(st2, n)
       IN Finish(scene_node_update_outputs(st3, n, NULL), Ok("buffer_create"))

wlr_scene_buffer_create(parent, buffer, cap, buffer_cap) ==
    /\ Running /\ HasFreeNode(cap) /\ parent \in Trees
    /\ Cardinality(SceneBuffers) < buffer_cap
    /\ LET n == NewNodeId
           st0 == [Begin EXCEPT !.nodes[n] = scene_node_init("buffer", parent)]
           st1 == IF buffer # NULL
                  THEN [wlr_buffer_lock(st0, buffer) EXCEPT !.nodes[n].buffer = buffer]
                  ELSE st0
           st2 == LinkOnTop(st1, n, parent)
           st3 == scene_node_damage_whole(st2, n)
       IN Finish(scene_node_update_outputs(st3, n, NULL), Ok("buffer_create"))

NodeDestroy(n) ==
    /\ Running /\ Live(nodes, n)
    /\ Finish(wlr_scene_node_destroy(Begin, n), Ok("node_destroy"))

wlr_scene_node_set_enabled(n, enabled) ==
    /\ Running /\ Live(nodes, n)
    /\ IF nodes[n].enabled = enabled THEN Finish(Begin, Ok("set_enabled"))
       ELSE LET st1 == scene_node_damage_whole(Begin, n)
                st2 == [st1 EXCEPT !.nodes[n].enabled = enabled]
            IN Finish(scene_node_damage_whole(st2, n), Ok("set_enabled"))

\* Mutant: the membership is recomputed before the new box is damaged.
wlr_scene_node_set_position_update_first(n, x, y) ==
    /\ Running /\ Live(nodes, n)
    /\ IF nodes[n].x = x /\ nodes[n].y = y THEN Finish(Begin, Ok("set_position"))
       ELSE LET st1 == scene_node_damage_whole(Begin, n)
                st2 == [st1 EXCEPT !.nodes[n].x = x, !.nodes[n].y = y]
                st3 == scene_node_update_outputs(st2, n, NULL)
            IN Finish(scene_node_damage_whole(st3, n), Ok("set_position"))

wlr_scene_node_set_position(n, x, y) ==
    /\ Running /\ Live(nodes, n)
    /\ IF nodes[n].x = x /\ nodes[n].y = y THEN Finish(Begin, Ok("set_position"))
       ELSE LET st1 == scene_node_damage_whole(Begin, n)
                st2 == [st1 EXCEPT !.nodes[n].x = x, !.nodes[n].y = y]
                st3 == scene_node_damage_whole(st2, n)
            IN Finish(scene_node_update_outputs(st3, n, NULL), Ok("set_position"))

\* wl_list_remove(&node->link); wl_list_insert(<link>, &node->link), with the
\* link given as the sibling it follows (NULL: the list head).
MoveAfter(st, n, after) ==
    LET p == st.nodes[n].parent
        rest == ListRemove(st.nodes[p].children, n)
    IN [st EXCEPT !.nodes[p].children = ListInsertAt(rest, IndexOf(rest, after), n)]

\* node->link.prev / node->link.next as siblings (NULL: the list head).
PrevSibling(ns, n) ==
    LET ch == ns[ns[n].parent].children
        i == IndexOf(ch, n)
    IN IF i <= 1 THEN NULL ELSE ch[i - 1]

NextSibling(ns, n) ==
    LET ch == ns[ns[n].parent].children
        i == IndexOf(ch, n)
    IN IF i = Len(ch) THEN NULL ELSE ch[i + 1]

place_above(st, n, sibling) ==
    IF PrevSibling(st.nodes, n) = sibling THEN st
    ELSE LET st1 == MoveAfter(st, n, sibling)
             st2 == scene_node_damage_whole(st1, n)
         IN scene_node_damage_whole(st2, sibling)

\* Mutant: the node is linked after the sibling, as place_above does.
place_below_after_sibling(st, n, sibling) ==
    IF NextSibling(st.nodes, n) = sibling THEN st
    ELSE LET st1 == MoveAfter(st, n, sibling)
             st2 == scene_node_damage_whole(st1, n)
         IN scene_node_damage_whole(st2, sibling)

place_below(st, n, sibling) ==
    IF NextSibling(st.nodes, n) = sibling THEN st
    ELSE LET rest == ListRemove(st.nodes[st.nodes[n].parent].children, n)
             i == IndexOf(rest, sibling)
             st1 == MoveAfter(st, n, IF i <= 1 THEN NULL ELSE rest[i - 1])
             st2 == scene_node_damage_whole(st1, n)
         IN scene_node_damage_whole(st2, sibling)

wlr_scene_node_place_above(n, sibling) ==
    /\ Running /\ Live(nodes, n) /\ Live(nodes, sibling)
    /\ IF n = sibling \/ nodes[n].parent # nodes[sibling].parent
       THEN Abort("place_above")
       ELSE Finish(place_above(Begin, n, sibling), Ok("place_above"))

wlr_scene_node_place_below(n, sibling) ==
    /\ Running /\ Live(nodes, n) /\ Live(nodes, sibling)
    /\ IF n = sibling \/ nodes[n].parent # nodes[sibling].parent
       THEN Abort("place_below")
       ELSE Finish(place_below(Begin, n, sibling), Ok("place_below"))

\* Callers pass a node that has a parent: node->parent is dereferenced.
wlr_scene_node_raise_to_top(n) ==
    /\ Running /\ Live(nodes, n) /\ nodes[n].parent # NULL
    /\ LET ch == nodes[nodes[n].parent].children
           current_top == ch[Len(ch)]
       IN IF n = current_top THEN Finish(Begin, Ok("raise_to_top"))
          ELSE Finish(place_above(Begin, n, current_top), Ok("raise_to_top"))

wlr_scene_node_lower_to_bottom(n) ==
    /\ Running /\ Live(nodes, n) /\ nodes[n].parent # NULL
    /\ LET current_bottom == nodes[nodes[n].parent].children[1]
       IN IF n = current_bottom THEN Finish(Begin, Ok("lower_to_bottom"))
          ELSE Finish(place_below(Begin, n, current_bottom), Ok("lower_to_bottom"))

RECURSIVE AncestorsOrSelf(_, _)
\* The chain the assert loop of wlr_scene_node_reparent walks from new_parent.
AncestorsOrSelf(ns, t) ==
    IF t = NULL THEN {} ELSE {t} \cup AncestorsOrSelf(ns, ns[t].parent)

\* Mutant: the node is not removed from its old position.
reparent_keep_link(st, n, new_parent) ==
    LET st1 == scene_node_damage_whole(st, n)
        st3 == [st1 EXCEPT !.nodes[n].parent = new_parent]
        st4 == LinkOnTop(st3, n, new_parent)
        st5 == scene_node_damage_whole(st4, n)
    IN scene_node_update_outputs(st5, n, NULL)

reparent(st, n, new_parent) ==
    LET st1 == scene_node_damage_whole(st, n)
        st2 == Unlink(st1, n)
        st3 == [st2 EXCEPT !.nodes[n].parent = new_parent]
        st4 == LinkOnTop(st3, n, new_parent)
        st5 == scene_node_damage_whole(st4, n)
    IN scene_node_update_outputs(st5, n, NULL)

wlr_scene_node_reparent(n, new_parent) ==
    /\ Running /\ Live(nodes, n) /\ new_parent \in Trees
    /\ IF nodes[n].parent = new_parent THEN Finish(Begin, Ok("reparent"))
       ELSE IF n \in AncestorsOrSelf(nodes, new_parent) THEN Abort("reparent")
       ELSE Finish(reparent(Begin, n, new_parent), Ok("reparent"))

wlr_scene_rect_set_size(n, width, height) ==
    /\ Running /\ n \in Rects
    /\ IF nodes[n].width = width /\ nodes[n].height = height
       THEN Finish(Begin, Ok("rect_set_size"))
       ELSE LET st1 == scene_node_damage_whole(Begin, n)
                st2 == [st1 EXCEPT !.nodes[n].width = width, !.nodes[n].height = height]
            IN Finish(scene_node_damage_whole(st2, n), Ok("rect_set_size"))

\* Colours are told apart by their bytes, as memcmp does.
wlr_scene_rect_set_color(n, color) ==
    /\ Running /\ n \in Rects
    /\ IF nodes[n].color = color THEN Finish(Begin, Ok("rect_set_color"))
       ELSE LET st1 == [Begin EXCEPT !.nodes[n].color = color]
            IN Finish(scene_node_damage_whole(st1, n), Ok("rect_set_color"))

\* floor and ceil of num / den, den > 0; the cast of num / den to int.
Floor(num, den) == num \div den
Ceil(num, den) == -((-num) \div den)
Trunc(num, den) == IF num >= 0 THEN num \div den ELSE -((-num) \div den)

\* wlr_region_transform of a one-rectangle region, for the transforms of the
\* model: WL_OUTPUT_TRANSFORM_90 turns the rectangle within the height.
wlr_region_transform(region, transform, width, height) ==
    IF Has90(transform)
    THEN [x1 |-> height - region.y2, y1 |-> region.x1,
          x2 |-> height - region.y1, y2 |-> region.x2]
    ELSE region

\* pixman_region32_intersect_rect; the empty region is all zeros.
intersect_rect(region, x, y, width, height) ==
    LET r == [x1 |-> Max(region.x1, x), y1 |-> Max(region.y1, y),
              x2 |-> Min(region.x2, x + width), y2 |-> Min(region.y2, y + height)]
    IN IF r.x1 >= r.x2 \/ r.y1 >= r.y2 THEN [x1 |-> 0, y1 |-> 0, x2 |-> 0, y2 |-> 0]
       ELSE r

\* wlr_region_scale_xy by sx.num / sx.den and sy.num / sy.den, then
\* pixman_region32_translate by (dx, dy).
scale_translate(region, sx, sy, dx, dy) ==
    LET r == [x1 |-> Floor(region.x1 * sx.num, sx.den),
              y1 |-> Floor(region.y1 * sy.num, sy.den),
              x2 |-> Ceil(region.x2 * sx.num, sx.den),
              y2 |-> Ceil(region.y2 * sy.num, sy.den)]
    IN IF r.x1 >= r.x2 \/ r.y1 >= r.y2 THEN [x1 |-> 0, y1 |-> 0, x2 |-> 0, y2 |-> 0]
       ELSE [x1 |-> r.x1 + dx, y1 |-> r.y1 + dy, x2 |-> r.x2 + dx, y2 |-> r.y2 + dy]

wlr_output_damage_add(st, scene_output, region) ==
    IF "damage" \notin st.observed THEN st ELSE
    [st EXCEPT !.damage = Append(@, [output |-> scene_output.id, whole |-> FALSE, box |-> region])]

RECURSIVE damage_region_outputs(_, _, _, _, _, _, _)
\* The loop over scene->outputs that ends wlr_scene_buffer_set_buffer_with_damage;
\* scale_x and scale_y are fractions, the output's scale is in halves.
damage_region_outputs(st, i, trans_damage, scale_x, scale_y, lx, ly) ==
    IF i > Len(st.outputs) THEN st
    ELSE LET scene_output == st.outputs[i]
             output_scale == scene_output.scale
             output_damage ==
                 scale_translate(trans_damage,
                     [num |-> output_scale * scale_x.num, den |-> 2 * scale_x.den],
                     [num |-> output_scale * scale_y.num, den |-> 2 * scale_y.den],
                     Trunc((lx - scene_output.x) * output_scale, 2),
                     Trunc((ly - scene_output.y) * output_scale, 2))
         IN damage_region_outputs(
                wlr_output_damage_add(st, scene_output, output_damage),
                i + 1, trans_damage, scale_x, scale_y, lx, ly)

\* The source box the damage is cut to: src_box, or the whole buffer as the
\* node's transform lays it out.
damage_source_box(node, buffer) ==
    IF ~wlr_fbox_empty(node.src_box) THEN node.src_box
    ELSE IF Has90(node.transform)
    THEN [x |-> 0, y |-> 0, width |-> wlr_buffer(buffer).height,
          height |-> wlr_buffer(buffer).width]
    ELSE [x |-> 0, y |-> 0, width |-> wlr_buffer(buffer).width,
          height |-> wlr_buffer(buffer).height]

\* scale_x and scale_y, as fractions.
damage_scale(node, buffer, box) ==
    IF node.dst_width # 0 \/ node.dst_height # 0
    THEN [x |-> [num |-> node.dst_width, den |-> box.width],
          y |-> [num |-> node.dst_height, den |-> box.height]]
    ELSE [x |-> [num |-> wlr_buffer(buffer).width, den |-> box.width],
          y |-> [num |-> wlr_buffer(buffer).height, den |-> box.height]]

\* Mutant: the region is not cut to the source box.
damage_buffer_region_no_clip(st, n, buffer, region, c, box) ==
    IF ~c.enabled THEN st
    ELSE damage_region_outputs(st, 1,
             wlr_region_transform(region, st.nodes[n].transform,
                 wlr_buffer(buffer).width, wlr_buffer(buffer).height),
             damage_scale(st.nodes[n], buffer, box).x,
             damage_scale(st.nodes[n], buffer, box).y, c.lx, c.ly)

\* The end of wlr_scene_buffer_set_buffer_with_damage, from the call of
\* wlr_scene_node_coords on.
damage_buffer_region(st, n, buffer, region, c, box) ==
    IF ~c.enabled THEN st
    ELSE damage_region_outputs(st, 1,
             intersect_rect(
                 wlr_region_transform(region, st.nodes[n].transform,
                     wlr_buffer(buffer).width, wlr_buffer(buffer).height),
                 box.x, box.y, box.width, box.height),
             damage_scale(st.nodes[n], buffer, box).x,
             damage_scale(st.nodes[n], buffer, box).y, c.lx, c.ly)

\* wlr_texture_destroy(scene_buffer->texture); scene_buffer->texture = NULL;
drop_texture(st, n) ==
    [wlr_texture_destroy(st, st.nodes[n].texture) EXCEPT !.nodes[n].texture = NULL]

\* Mutant: the cached texture outlives its buffer.
replace_buffer_keep_texture(st, n, buffer) ==
    IF buffer # NULL
    THEN [wlr_buffer_lock(wlr_buffer_unlock(st, st.nodes[n].buffer), buffer) EXCEPT
             !.nodes[n].buffer = buffer]
    ELSE [wlr_buffer_unlock(st, st.nodes[n].buffer) EXCEPT !.nodes[n].buffer = NULL]

\* The node gives up its texture and its buffer and takes the new buffer.
replace_buffer(st, n, buffer) ==
    IF buffer # NULL
    THEN [wlr_buffer_lock(wlr_buffer_unlock(drop_texture(st, n), st.nodes[n].buffer),
              buffer) EXCEPT !.nodes[n].buffer = buffer]
    ELSE [wlr_buffer_unlock(drop_texture(st, n), st.nodes[n].buffer) EXCEPT
             !.nodes[n].buffer = NULL]

\* if (buffer != scene_buffer->buffer) { ... }; whole: damage == NULL.
buffer_changed(st, n, buffer, whole) ==
    IF buffer = st.nodes[n].buffer THEN st
    ELSE IF whole
    THEN scene_node_damage_whole(
             scene_node_update_outputs(
                 replace_buffer(scene_node_damage_whole(st, n), n, buffer), n, NULL), n)
    ELSE scene_node_update_outputs(replace_buffer(st, n, buffer), n, NULL)

\* damage_region (the damage argument): <<>> for NULL, or <<r>> for a region
\* of one rectangle r = [x1, y1, x2, y2] in buffer coordinates.  The caller
\* has checked assert(buffer || !damage).
set_buffer_with_damage(st, n, buffer, damage_region) ==
    IF damage_region = <<>> THEN buffer_changed(st, n, buffer, TRUE)
    ELSE damage_buffer_region(buffer_changed(st, n, buffer, FALSE), n, buffer,
             damage_region[1], wlr_scene_node_coords(st.nodes, n),
             damage_source_box(st.nodes[n], buffer))

wlr_scene_buffer_set_buffer_with_damage(n, buffer, damage_region) ==
    /\ Running /\ n \in SceneBuffers
    /\ IF buffer = NULL /\ damage_region # <<>> THEN Abort("set_buffer_with_damage")
       ELSE Finish(set_buffer_with_damage(Begin, n, buffer, damage_region),
                Ok("set_buffer_with_damage"))

\* wlr_scene_buffer_set_buffer: the same with damage == NULL.
set_buffer(st, n, buffer) == set_buffer_with_damage(st, n, buffer, <<>>)

wlr_scene_buffer_set_buffer(n, buffer) ==
    /\ Running /\ n \in SceneBuffers
    /\ Finish(set_buffer(Begin, n, buffer), Ok("set_buffer"))

wlr_scene_buffer_set_source_box(n, box) ==
    /\ Running /\ n \in SceneBuffers
    /\ IF (wlr_fbox_empty(box) /\ wlr_fbox_empty(nodes[n].src_box)) \/ nodes[n].src_box = box
       THEN Finish(Begin, Ok("set_source_box"))
       ELSE LET st1 == [Begin EXCEPT !.nodes[n].src_box = box]
            IN Finish(scene_node_damage_whole(st1, n), Ok("set_source_box"))

set_dest_size(st, n, width, height) ==
    LET st1 == scene_node_damage_whole(st, n)
        st2 == [st1 EXCEPT !.nodes[n].dst_width = width, !.nodes[n].dst_height = height]
        st3 == scene_node_damage_whole(st2, n)
    IN scene_node_update_outputs(st3, n, NULL)

wlr_scene_buffer_set_dest_size(n, width, height) ==
    /\ Running /\ n \in SceneBuffers
    /\ IF nodes[n].dst_width = width /\ nodes[n].dst_height = height
       THEN Finish(Begin, Ok("set_dest_size"))
       ELSE Finish(set_dest_size(Begin, n, width, height), Ok("set_dest_size"))

set_transform(st, n, transform) ==
    LET st1 == scene_node_damage_whole(st, n)
        st2 == [st1 EXCEPT !.nodes[n].transform = transform]
        st3 == scene_node_damage_whole(st2, n)
    IN scene_node_update_outputs(st3, n, NULL)

\* Mutant: the transform is set and damaged whatever it was.
wlr_scene_buffer_set_transform_always(n, transform) ==
    /\ Running /\ n \in SceneBuffers
    /\ Finish(set_transform(Begin, n, transform), Ok("set_transform"))

wlr_scene_buffer_set_transform(n, transform) ==
    /\ Running /\ n \in SceneBuffers
    /\ IF nodes[n].transform = transform THEN Finish(Begin, Ok("set_transform"))
       ELSE Finish(set_transform(Begin, n, transform), Ok("set_transform"))

\* ------------------------------------------------------------ scene-output operations
\* The host's wlr_output as the scene sees it: effective resolution, scale,
\* transform.
HostOutputs == [width : Dims, height : Dims, scale : Scales, transform : Transforms]

OutputCreate(output, cap) ==
    /\ Running /\ Len(outputs) < cap
    /\ IF output_create_scan(outputs, 1, -1).prev_output_index + 1 >= WLR_SCENE_MAX_OUTPUTS
       THEN Abort("output_create")
       ELSE Finish(wlr_scene_output_create(Begin, output), Ok("output_create"))

OutputDestroy(id) ==
    /\ Running /\ id \in OutputIds
    /\ Finish(wlr_scene_output_destroy(Begin, id), Ok("output_destroy"))

SetOutput(st, id, f, v) ==
    [st EXCEPT !.outputs = [i \in 1..Len(@) |->
        IF @[i].id = id THEN [@[i] EXCEPT ![f] = v] ELSE @[i]]]

output_set_position(st, id, lx, ly) ==
    LET st1 == SetOutput(SetOutput(st, id, "x", lx), id, "y", ly)
        st2 == wlr_output_damage_add_whole(st1, OutputById(st1.outputs, id))
    IN scene_node_update_outputs(st2, Root, NULL)

wlr_scene_output_set_position(id, lx, ly) ==
    /\ Running /\ id \in OutputIds
    /\ IF OutputById(outputs, id).x = lx /\ OutputById(outputs, id).y = ly
       THEN Finish(Begin, Ok("output_set_position"))
       ELSE Finish(output_set_position(Begin, id, lx, ly), Ok("output_set_position"))

\* The output takes its new state (the host's commit or mode change), then
\* emits the event the scene-output listens to.
ApplyOutputState(st, id, output) ==
    SetOutput(SetOutput(SetOutput(SetOutput(st, id, "width", output.width),
        id, "height", output.height), id, "scale", output.scale),
        id, "transform", output.transform)

\* committed & (MODE | TRANSFORM | SCALE): the output has a new resolution,
\* transform or scale; any other commit leaves them as they are.
scene_output_handle_commit(id, geometry_committed, output) ==
    /\ Running /\ id \in OutputIds
    /\ IF geometry_committed
       THEN Finish(scene_node_update_outputs(ApplyOutputState(Begin, id, output),
                Root, NULL), Ok("output_commit_event"))
       ELSE Finish(Begin, Ok("output_commit_event"))

\* The mode event: the output's mode (its resolution) changed.
scene_output_handle_mode(id, width, height) ==
    /\ Running /\ id \in OutputIds
    /\ LET st1 == SetOutput(SetOutput(Begin, id, "width", width), id, "height", height)
       IN Finish(scene_node_update_outputs(st1, Root, NULL), Ok("output_mode_event"))

\* ------------------------------------------------------------ frame done
RECURSIVE scene_node_send_frame_done(_, _, _)
RECURSIVE send_frame_done_children(_, _, _, _)
send_frame_done_children(st, children, i, id) ==
    IF i > Len(children) THEN st
    ELSE send_frame_done_children(
             scene_node_send_frame_done(st, children[i], id), children, i + 1, id)

\* Mutant: frame_done goes to every enabled buffer node the output is active
\* on, primary or not.
scene_node_send_frame_done_active(st, n, id) ==
    IF ~st.nodes[n].enabled THEN st
    ELSE IF st.nodes[n].type = "buffer"
    THEN IF OutputById(st.outputs, id).index \in st.nodes[n].active_outputs
         THEN wlr_signal_emit_safe(st, "frame_done", n, id)
         ELSE st
    ELSE IF st.nodes[n].type = "tree"
    THEN send_frame_done_children(st, st.nodes[n].children, 1, id)
    ELSE st

scene_node_send_frame_done(st, n, id) ==
    IF ~st.nodes[n].enabled THEN st
    ELSE IF st.nodes[n].type = "buffer"
    THEN IF st.nodes[n].primary_output = id
         THEN wlr_signal_emit_safe(st, "frame_done", n, id)
         ELSE st
    ELSE IF st.nodes[n].type = "tree"
    THEN send_frame_done_children(st, st.nodes[n].children, 1, id)
    ELSE st

wlr_scene_output_send_frame_done(id) ==
    /\ Running /\ id \in OutputIds
    /\ Finish(scene_node_send_frame_done(Begin, Root, id), Ok("send_frame_done"))

\* ------------------------------------------------------------ commit
\* A call into the host's output, damage tracker or renderer on behalf of
\* scene-output `output`, with what it returned.
host_call(st, fn, output, arg, result) ==
    IF "calls" \notin st.observed THEN st
    ELSE [st EXCEPT !.calls = Append(@,
             [fn |-> fn, output |-> output, arg |-> arg, result |-> result])]

\* A call into the renderer, recorded when the rendering is watched.
render_call(st, fn, output, arg) ==
    IF "render" \notin st.observed THEN st ELSE host_call(st, fn, output, arg, TRUE)

\* ------------------------------------------------------------ queries
RECURSIVE scene_node_for_each_scene_buffer(_, _, _, _)
RECURSIVE for_each_scene_buffer_children(_, _, _, _, _)
for_each_scene_buffer_children(st, children, i, lx, ly) ==
    IF i > Len(children) THEN st
    ELSE for_each_scene_buffer_children(
             scene_node_for_each_scene_buffer(st, children[i], lx, ly),
             children, i + 1, lx, ly)

\* The walk over the enabled buffer nodes below node; each call of the
\* user's iterator is recorded with the node and the coordinates it is given.
scene_node_for_each_scene_buffer(st, node, lx0, ly0) ==
    IF ~st.nodes[node].enabled THEN st
    ELSE IF st.nodes[node].type = "buffer"
    THEN host_call(st, "user_iterator", NULL,
             [node |-> node, lx |-> lx0 + st.nodes[node].x,
              ly |-> ly0 + st.nodes[node].y], TRUE)
    ELSE IF st.nodes[node].type = "tree"
    THEN for_each_scene_buffer_children(st, st.nodes[node].children, 1,
             lx0 + st.nodes[node].x, ly0 + st.nodes[node].y)
    ELSE st

wlr_scene_node_for_each_buffer(n) ==
    /\ Running /\ Live(nodes, n)
    /\ Finish(scene_node_for_each_scene_buffer(Begin, n, 0, 0), Ok("for_each_buffer"))

\* The test wlr_scene_node_at makes on a rect or buffer node at the point
\* (lx, ly) of the node's own coordinates.  point_accepts_input is <<>> when
\* the pointer is null and <<f>> otherwise, f the set of points the host's
\* callback accepts.
node_at_intersects(node, lx, ly) ==
    IF node.type = "buffer" /\ node.point_accepts_input # <<>>
    THEN <<lx, ly>> \in node.point_accepts_input[1]
    ELSE /\ lx >= 0 /\ lx < scene_node_get_size(node).width
         /\ ly >= 0 /\ ly < scene_node_get_size(node).height

RECURSIVE wlr_scene_node_at_bottom_first(_, _, _, _)
RECURSIVE node_at_children_forward(_, _, _, _, _)
\* Mutant: the children are tried from the head of the list.
node_at_children_forward(ns, children, i, lx, ly) ==
    IF i > Len(children) THEN <<>>
    ELSE IF wlr_scene_node_at_bottom_first(ns, children[i], lx, ly) # <<>>
    THEN wlr_scene_node_at_bottom_first(ns, children[i], lx, ly)
    ELSE node_at_children_forward(ns, children, i + 1, lx, ly)

\* Mutant: the bottom-most hit is returned.
wlr_scene_node_at_bottom_first(ns, node, lx0, ly0) ==
    IF ~ns[node].enabled THEN <<>>
    ELSE IF ns[node].type = "tree"
    THEN node_at_children_forward(ns, ns[node].children, 1,
             lx0 - ns[node].x, ly0 - ns[node].y)
    ELSE IF node_at_intersects(ns[node], lx0 - ns[node].x, ly0 - ns[node].y)
    THEN <<[node |-> node, nx |-> lx0 - ns[node].x, ny |-> ly0 - ns[node].y]>>
    ELSE <<>>

RECURSIVE wlr_scene_node_at(_, _, _, _)
RECURSIVE node_at_children(_, _, _, _, _)
\* wl_list_for_each_reverse over the children: the first hit is returned.
node_at_children(ns, children, i, lx, ly) ==
    IF i < 1 THEN <<>>
    ELSE IF wlr_scene_node_at(ns, children[i], lx, ly) # <<>>
    THEN wlr_scene_node_at(ns, children[i], lx, ly)
    ELSE node_at_children(ns, children, i - 1, lx, ly)

\* <<>> for NULL, else <<[node, nx, ny]>>: the node returned and what is
\* stored through nx and ny.
wlr_scene_node_at(ns, node, lx0, ly0) ==
    IF ~ns[node].enabled THEN <<>>
    ELSE IF ns[node].type = "tree"
    THEN node_at_children(ns, ns[node].children, Len(ns[node].children),
             lx0 - ns[node].x, ly0 - ns[node].y)
    ELSE IF node_at_intersects(ns[node], lx0 - ns[node].x, ly0 - ns[node].y)
    THEN <<[node |-> node, nx |-> lx0 - ns[node].x, ny |-> ly0 - ns[node].y]>>
    ELSE <<>>

\* wlr_scene_node_coords as an operation: what it stores through lx_ptr and
\* ly_ptr and what it returns; the call is recorded when the calls are watched.
NodeCoords(n) ==
    /\ Running /\ Live(nodes, n)
    /\ Finish(host_call(Begin, "wlr_scene_node_coords", NULL, [node |-> n],
                  wlr_scene_node_coords(nodes, n)),
              [Ok("node_coords") EXCEPT !.value = wlr_scene_node_coords(nodes, n)])

\* The query as an operation: the scene is left alone, the result returned;
\* the call is recorded with its arguments when the calls are watched.
NodeAt(n, lx, ly) ==
    /\ Running /\ Live(nodes, n)
    /\ Finish(host_call(Begin, "wlr_scene_node_at", NULL,
                  [node |-> n, lx |-> lx, ly |-> ly],
                  wlr_scene_node_at(nodes, n, lx, ly)),
              [Ok("node_at") EXCEPT !.value = wlr_scene_node_at(nodes, n, lx, ly)])

\* The host stores a callback in (or clears) scene_buffer->point_accepts_input.
AssignPointAcceptsInput(n, callback) ==
    /\ Running /\ n \in SceneBuffers
    /\ Finish([Begin EXCEPT !.nodes[n].point_accepts_input = callback],
              Ok("assign_point_accepts_input"))

\* Mutant: only a node whose box equals the viewport is counted.
check_scanout_iterator_count_equal(ns, node, x, y, data) ==
    LET size == scene_node_get_size(ns[node])
        node_box == [x |-> x, y |-> y, width |-> size.width, height |-> size.height]
    IN IF ~wlr_box_intersection(data.viewport_box, node_box).ok THEN data
       ELSE IF data.viewport_box = node_box
       THEN [data EXCEPT !.n = @ + 1, !.node = node]
       ELSE data

check_scanout_iterator(ns, node, x, y, data) ==
    LET size == scene_node_get_size(ns[node])
        node_box == [x |-> x, y |-> y, width |-> size.width, height |-> size.height]
    IN IF ~wlr_box_intersection(data.viewport_box, node_box).ok THEN data
       ELSE IF data.viewport_box = node_box
       THEN [data EXCEPT !.n = @ + 1, !.node = node]
       ELSE [data EXCEPT !.n = @ + 1]

\* scene_buffer_get_texture: [st, texture].  A client buffer's own texture
\* is used and nothing is cached; else the cached texture, or one made now
\* from the buffer and cached.  Allocations succeed in this model, so there
\* is a texture for every buffer.
scene_buffer_get_texture(st, node) ==
    IF wlr_client_buffer_get(st.nodes[node].buffer)
    THEN [st |-> st, texture |-> st.nodes[node].buffer]
    ELSE IF st.nodes[node].texture # NULL
    THEN [st |-> st, texture |-> st.nodes[node].texture]
    ELSE [st |-> [st EXCEPT !.nodes[node].texture = st.nodes[node].buffer],
          texture |-> st.nodes[node].buffer]

\* data: the scene-output and the host's replies of this commit.
render_node_iterator(st, node, x, y, data) ==
    LET size == scene_node_get_size(st.nodes[node])
        dst_box == scale_box([x |-> x, y |-> y, width |-> size.width,
                              height |-> size.height], data.scene_output.scale)
        id == data.scene_output.id
    IN IF st.nodes[node].type = "rect"
       THEN render_call(st, "render_rect", id, dst_box)
       ELSE IF st.nodes[node].type = "buffer"
       THEN IF st.nodes[node].buffer = NULL THEN st
            ELSE IF scene_buffer_get_texture(st, node).texture = NULL
            THEN scene_buffer_get_texture(st, node).st
            ELSE wlr_signal_emit_safe(
                     render_call(scene_buffer_get_texture(st, node).st,
                         "render_texture", id, dst_box),
                     "output_present", node, id)
       ELSE st

RECURSIVE scene_node_for_each_node(_, _, _, _, _, _)
RECURSIVE for_each_node_children(_, _, _, _, _, _, _)
\* The walk over the enabled nodes.  it = [st, data]; user_iterator names the
\* callback: check_scanout_iterator changes data, render_node_iterator st.
for_each_node_children(it, children, i, lx, ly, user_iterator, n) ==
    IF i > Len(children) THEN it
    ELSE for_each_node_children(
             scene_node_for_each_node(it, children[i], lx, ly, user_iterator, n),
             children, i + 1, lx, ly, user_iterator, n)

scene_node_for_each_node(it, node, lx0, ly0, user_iterator, unused) ==
    IF ~it.st.nodes[node].enabled THEN it
    ELSE LET lx == lx0 + it.st.nodes[node].x
             ly == ly0 + it.st.nodes[node].y
             it1 == IF user_iterator = "check_scanout_iterator"
                    THEN [it EXCEPT !.data =
                             check_scanout_iterator(it.st.nodes, node, lx, ly, @)]
                    ELSE [it EXCEPT !.st =
                             render_node_iterator(@, node, lx, ly, it.data)]
         IN IF it1.st.nodes[node].type = "tree"
            THEN for_each_node_children(it1, it1.st.nodes[node].children, 1,
                     lx, ly, user_iterator, unused)
            ELSE it1

\* Mutant: a rejected buffer is left attached.
scene_output_scanout_no_rollback(st, id, host, option) ==
    IF option = "highlight" THEN [st |-> st, result |-> FALSE]
    ELSE
    LET scene_output == OutputById(st.outputs, id)
        check_scanout_data ==
            scene_node_for_each_node(
                [st |-> st,
                 data |-> [viewport_box |-> OutputBox(scene_output), node |-> NULL, n |-> 0]],
                Root, 0, 0, "check_scanout_iterator", NULL).data
        node == check_scanout_data.node
    IN IF check_scanout_data.n # 1 \/ node = NULL THEN [st |-> st, result |-> FALSE]
       ELSE IF st.nodes[node].type # "buffer" THEN [st |-> st, result |-> FALSE]
       ELSE IF \/ st.nodes[node].buffer = NULL
               \/ ~wlr_fbox_empty(st.nodes[node].src_box)
               \/ st.nodes[node].transform # scene_output.transform
       THEN [st |-> st, result |-> FALSE]
       ELSE
       LET st1 == host_call(st, "wlr_output_attach_buffer", id, st.nodes[node].buffer, TRUE)
           st2 == host_call(st1, "wlr_output_test", id, NULL, host.test_ok)
       IN IF ~host.test_ok
          THEN [st |-> st2, result |-> FALSE]
          ELSE LET st3 == wlr_signal_emit_safe(st2, "output_present", node, id)
               IN [st |-> host_call(st3, "wlr_output_commit", id, NULL,
                                    host.scanout_commit_ok),
                   result |-> host.scanout_commit_ok]

\* [st, result]; host: the replies of wlr_output_test and wlr_output_commit.
scene_output_scanout(st, id, host, option) ==
    IF option = "highlight" THEN [st |-> st, result |-> FALSE]
    ELSE
    LET scene_output == OutputById(st.outputs, id)
        check_scanout_data ==
            scene_node_for_each_node(
                [st |-> st,
                 data |-> [viewport_box |-> OutputBox(scene_output), node |-> NULL, n |-> 0]],
                Root, 0, 0, "check_scanout_iterator", NULL).data
        node == check_scanout_data.node
    IN IF check_scanout_data.n # 1 \/ node = NULL THEN [st |-> st, result |-> FALSE]
       ELSE IF st.nodes[node].type # "buffer" THEN [st |-> st, result |-> FALSE]
       ELSE IF \/ st.nodes[node].buffer = NULL
               \/ ~wlr_fbox_empty(st.nodes[node].src_box)
               \/ st.nodes[node].transform # scene_output.transform
       THEN [st |-> st, result |-> FALSE]
       ELSE
       LET st1 == host_call(st, "wlr_output_attach_buffer", id, st.nodes[node].buffer, TRUE)
           st2 == host_call(st1, "wlr_output_test", id, NULL, host.test_ok)
       IN IF ~host.test_ok
          THEN [st |-> host_call(st2, "wlr_output_rollback", id, NULL, TRUE),
                result |-> FALSE]
          ELSE LET st3 == wlr_signal_emit_safe(st2, "output_present", node, id)
               IN [st |-> host_call(st3, "wlr_output_commit", id, NULL,
                                    host.scanout_commit_ok),
                   result |-> host.scanout_commit_ok]

RECURSIVE highlight_regions_loop_no_subtract(_, _, _, _)
\* Mutant: a region keeps what newer ones cover.
highlight_regions_loop_no_subtract(regions, i, acc_damage, kept) ==
    IF i > Len(regions) THEN [regions |-> kept, acc_damage |-> acc_damage]
    ELSE IF regions[i].age >= HIGHLIGHT_DAMAGE_FADEOUT_TIME \/ regions[i].region = {}
    THEN highlight_regions_loop_no_subtract(regions, i + 1,
             acc_damage \cup regions[i].region, kept)
    ELSE highlight_regions_loop_no_subtract(regions, i + 1,
             acc_damage \cup regions[i].region, Append(kept, regions[i]))

RECURSIVE highlight_regions_loop(_, _, _, _)
\* The loop over the highlight regions, newest first: each loses what newer
\* ones cover, and goes when it is empty or has faded out.
\* [regions, acc_damage]
highlight_regions_loop(regions, i, acc_damage, kept) ==
    IF i > Len(regions) THEN [regions |-> kept, acc_damage |-> acc_damage]
    ELSE LET region == regions[i].region \ acc_damage
             acc == acc_damage \cup region
         IN IF regions[i].age >= HIGHLIGHT_DAMAGE_FADEOUT_TIME \/ region = {}
            THEN highlight_regions_loop(regions, i + 1, acc, kept)
            ELSE highlight_regions_loop(regions, i + 1, acc,
                     Append(kept, [regions[i] EXCEPT !.region = region]))

RECURSIVE render_highlight_regions(_, _, _)
render_highlight_regions(st, id, i) ==
    IF i > Len(st.damage_highlight_regions) THEN st
    ELSE render_highlight_regions(
             render_call(st, "wlr_render_rect", id, st.damage_highlight_regions[i]),
             id, i + 1)

\* The highlight branch before rendering.  The clock has advanced by
\* host.elapsed since the last commit; host.current is the damage tracker's
\* current damage.
highlight_damage(st, id, host) ==
    LET aged == [i \in 1..Len(st.damage_highlight_regions) |->
                    [st.damage_highlight_regions[i] EXCEPT
                        !.age = Min(@ + host.elapsed, HIGHLIGHT_DAMAGE_FADEOUT_TIME)]]
        regions == IF host.current # {}
                   THEN <<[region |-> host.current, age |-> 0]>> \o aged
                   ELSE aged
        loop == highlight_regions_loop(regions, 1, {}, <<>>)
        st1 == [st EXCEPT !.damage_highlight_regions = loop.regions]
    IN IF "damage" \notin st.observed THEN st1
       ELSE [st1 EXCEPT !.damage = Append(@,
                [output |-> id, whole |-> FALSE, box |-> loop.acc_damage])]

RECURSIVE clear_damage_rects(_, _, _)
\* The loop over the rectangles of the damage wlr_output_damage_attach_render
\* returned: each is scissored and cleared.
clear_damage_rects(st, id, rects) ==
    IF rects = {} THEN st
    ELSE LET r == CHOOSE c \in rects : \A d \in rects : c <= d
         IN clear_damage_rects(render_call(st, "wlr_renderer_clear", id, r), id,
                rects \ {r})

\* Mutant: a commit that needs no frame reports failure.
commit_composite_no_frame_fails(st, scene_output, host, option) ==
    LET id == scene_output.id
        st3 == IF option = "rerender"
               THEN wlr_output_damage_add_whole(st, scene_output)
               ELSE st
        st4 == IF option = "highlight" THEN highlight_damage(st3, id, host) ELSE st3
        st5 == host_call(st4, "wlr_output_damage_attach_render", id, host.needs_frame,
                   host.attach_ok)
    IN IF ~host.attach_ok THEN [st |-> st5, result |-> FALSE]
       ELSE IF ~host.needs_frame
       THEN [st |-> host_call(st5, "wlr_output_rollback", id, NULL, TRUE), result |-> FALSE]
       ELSE
       LET st6 == clear_damage_rects(
                      render_call(st5, "wlr_renderer_begin", id, NULL), id, host.damage)
           st7 == scene_node_for_each_node(
                      [st |-> st6, data |-> [scene_output |-> scene_output, host |-> host]],
                      Root, -scene_output.x, -scene_output.y,
                      "render_node_iterator", NULL).st
           st8 == IF option = "highlight" THEN render_highlight_regions(st7, id, 1) ELSE st7
           st9 == render_call(st8, "wlr_renderer_end", id, NULL)
           st10 == host_call(st9, "wlr_output_commit", id, NULL, host.commit_ok)
       IN [st |-> IF option = "highlight" /\ Len(st9.damage_highlight_regions) > 0
                  THEN host_call(st10, "wlr_output_schedule_frame", id, NULL, TRUE)
                  ELSE st10,
           result |-> host.commit_ok]

\* wlr_scene_output_commit when scan-out was not taken: the composited path.
\* [st, result]
commit_composite(st, scene_output, host, option) ==
    LET id == scene_output.id
        st3 == IF option = "rerender"
               THEN wlr_output_damage_add_whole(st, scene_output)
               ELSE st
        st4 == IF option = "highlight" THEN highlight_damage(st3, id, host) ELSE st3
        st5 == host_call(st4, "wlr_output_damage_attach_render", id, host.needs_frame,
                   host.attach_ok)
    IN IF ~host.attach_ok THEN [st |-> st5, result |-> FALSE]
       ELSE IF ~host.needs_frame
       THEN [st |-> host_call(st5, "wlr_output_rollback", id, NULL, TRUE), result |-> TRUE]
       ELSE
       LET st6 == clear_damage_rects(
                      render_call(st5, "wlr_renderer_begin", id, NULL), id, host.damage)
           st7 == scene_node_for_each_node(
                      [st |-> st6, data |-> [scene_output |-> scene_output, host |-> host]],
                      Root, -scene_output.x, -scene_output.y,
                      "render_node_iterator", NULL).st
           st8 == IF option = "highlight" THEN render_highlight_regions(st7, id, 1) ELSE st7
           st9 == render_call(st8, "wlr_renderer_end", id, NULL)
           st10 == host_call(st9, "wlr_output_commit", id, NULL, host.commit_ok)
       IN [st |-> IF option = "highlight" /\ Len(st9.damage_highlight_regions) > 0
                  THEN host_call(st10, "wlr_output_schedule_frame", id, NULL, TRUE)
                  ELSE st10,
           result |-> host.commit_ok]

\* Mutant: the output is damaged only when scan-out is left, not when it is
\* entered.
commit_after_scanout_exit_only(st, scanout, scene_output, host, option) ==
    LET st1 == IF ~scanout /\ scene_output.prev_scanout
               THEN wlr_output_damage_add_whole(st, scene_output)
               ELSE st
        st2 == SetOutput(st1, scene_output.id, "prev_scanout", scanout)
    IN IF scanout THEN [st |-> st2, result |-> TRUE]
       ELSE commit_composite(st2, scene_output, host, option)

\* The part of wlr_scene_output_commit that follows scene_output_scanout.
commit_after_scanout(st, scanout, scene_output, host, option) ==
    LET st1 == IF scanout # scene_output.prev_scanout
               THEN wlr_output_damage_add_whole(st, scene_output)
               ELSE st
        st2 == SetOutput(st1, scene_output.id, "prev_scanout", scanout)
    IN IF scanout THEN [st |-> st2, result |-> TRUE]
       ELSE commit_composite(st2, scene_output, host, option)

\* [st, result]
scene_output_commit(st, id, host, option) ==
    LET scanout == scene_output_scanout(st, id, host, option)
    IN commit_after_scanout(scanout.st, scanout.result, OutputById(st.outputs, id),
           host, option)

\* The regions of the model: sets of cells of the output.
Regions == SUBSET (1..MaxRegionCells)

\* The host's replies in one commit: the results of wlr_output_test, of the
\* scan-out's and the final wlr_output_commit and of
\* wlr_output_damage_attach_render, with the needs_frame and damage it
\* returns, the damage tracker's current damage and the time since the last
\* commit.  A reply that is never asked for when an earlier one is a failure
\* is listed once, as TRUE or empty.
HostReplies(currents, elapsed) ==
    {host \in [test_ok : BOOLEAN, scanout_commit_ok : BOOLEAN, attach_ok : BOOLEAN,
               needs_frame : BOOLEAN, commit_ok : BOOLEAN,
               current : currents, elapsed : elapsed, damage : Regions] :
        /\ ~host.test_ok => host.scanout_commit_ok
        /\ ~host.attach_ok => host.needs_frame
        /\ (~host.attach_ok \/ ~host.needs_frame) => (host.commit_ok /\ host.damage = {})}

wlr_scene_output_commit(id, host) ==
    /\ Running /\ id \in OutputIds
    /\ LET r == scene_output_commit(Begin, id, host, debug_damage_option)
       IN Finish(r.st, [Ok("output_commit") EXCEPT !.value = r.result])

\* ------------------------------------------------------------ specification
DebugDamageOptions == {"none", "rerender", "highlight"}

\* wlr_scene_create: the root tree, no outputs, the option read from the
\* environment.
InitScene(option, listeners) ==
    /\ nodes = [n \in NodeIds |->
                   IF n = Root THEN scene_node_init("tree", NULL) ELSE FreeNode]
    /\ outputs = <<>>
    /\ debug_damage_option = option
    /\ damage_highlight_regions = <<>>
    /\ events = <<>>
    /\ damage = <<>>
    /\ calls = <<>>
    /\ ret = [op |-> "", status |-> "ok", value |-> TRUE]
    /\ n_locks = [b \in BufferIds |-> 0]
    /\ observed = listeners

\* The operations of the node tree, the scene-outputs and the membership
\* engine, with their arguments drawn from the domains D.
MemberOps(D) ==
    \/ \E p \in NodeIds : wlr_scene_tree_create(p, D.nodes)
    \/ \E p \in NodeIds, b \in D.buffers : wlr_scene_buffer_create(p, b, D.nodes, D.scene_buffers)
    \/ \E n \in NodeIds : NodeDestroy(n)
    \/ \E n \in D.targets, e \in BOOLEAN : wlr_scene_node_set_enabled(n, e)
    \/ \E n \in D.targets, x \in D.xs, y \in D.ys : wlr_scene_node_set_position(n, x, y)
    \/ \E n \in NodeIds, p \in NodeIds : wlr_scene_node_reparent(n, p)
    \/ \E n \in NodeIds, b \in D.buffers : wlr_scene_buffer_set_buffer(n, b)
    \/ \E n \in NodeIds, d \in D.dsts : wlr_scene_buffer_set_dest_size(n, d[1], d[2])
    \/ \E n \in NodeIds, t \in D.transforms : wlr_scene_buffer_set_transform(n, t)
    \/ \E o \in D.outputs : OutputCreate(o, D.noutputs)
    \/ \E id \in OutputIds : OutputDestroy(id)
    \/ \E id \in OutputIds, x \in D.xs, y \in D.ys : wlr_scene_output_set_position(id, x, y)
    \/ \E id \in OutputIds, g \in BOOLEAN, o \in D.outputs : scene_output_handle_commit(id, g, o)
    \/ \E id \in OutputIds, o \in D.outputs : scene_output_handle_mode(id, o.width, o.height)
    \/ \E id \in OutputIds : wlr_scene_output_send_frame_done(id)

XCoords == 0..MaxCoord
YCoords == 0..MaxCoordY
NonRoot == NodeIds \ {Root}

\* Spec: membership as a function of geometry.  Nothing is listened to; no
\* operation of Spec reads the debug option or an output's transform.
Init == InitScene("none", {})

SpecDomain ==
    [nodes |-> MaxMemberNodes, scene_buffers |-> MaxSceneBuffers, targets |-> NonRoot,
     buffers |-> BufferIds \cup {NULL},
     xs |-> XCoords, ys |-> YCoords,
     dsts |-> (0..MaxDst) \X (0..MaxDst),
     transforms |-> Transforms,
     outputs |-> [width : Dims, height : 1..MaxOutputHeight, scale : Scales, transform : {0}],
     noutputs |-> MaxOutputs]

Next == MemberOps(SpecDomain)

Spec == Init /\ [][Next]_vars

\* SpecSig: the same operations with listeners on the membership and
\* frame-done signals of every buffer node.
InitSig == InitScene("none", {"output_enter", "output_leave", "frame_done"})

SigDomain ==
    [nodes |-> MaxSigNodes, scene_buffers |-> MaxSigNodes, targets |-> NonRoot,
     buffers |-> BufferIds \cup {NULL},
     xs |-> XCoords, ys |-> YCoords,
     outputs |-> [width : Dims, height : 1..MaxOutputHeight, scale : Scales, transform : {0}],
     noutputs |-> MaxOutputs]

SigOps(D) ==
    \/ \E p \in NodeIds : wlr_scene_tree_create(p, D.nodes)
    \/ \E p \in NodeIds, b \in D.buffers : wlr_scene_buffer_create(p, b, D.nodes, D.scene_buffers)
    \/ \E n \in NodeIds : NodeDestroy(n)
    \/ \E n \in D.targets, e \in BOOLEAN : wlr_scene_node_set_enabled(n, e)
    \/ \E n \in D.targets, x \in D.xs, y \in D.ys : wlr_scene_node_set_position(n, x, y)
    \/ \E n \in NodeIds, p \in NodeIds : wlr_scene_node_reparent(n, p)
    \/ \E n \in NodeIds, b \in D.buffers : wlr_scene_buffer_set_buffer(n, b)
    \/ \E o \in D.outputs : OutputCreate(o, D.noutputs)
    \/ \E id \in OutputIds : OutputDestroy(id)
    \/ \E id \in OutputIds, x \in D.xs, y \in D.ys : wlr_scene_output_set_position(id, x, y)
    \/ \E id \in OutputIds : wlr_scene_output_send_frame_done(id)

NextSig == SigOps(SigDomain)

SpecSig == InitSig /\ [][NextSig]_vars

\* SpecTree: the shape of the tree.  Up to MaxNodes nodes of the three types
\* at the origin, created, restacked, reparented and destroyed under up to
\* MaxOutputs identical outputs, with listeners on destroy and output_leave
\* and the damage recorded.
InitTree == InitScene("none", {"destroy", "output_leave", "damage"})

TreeOutputs == [width : {MaxDim}, height : {1}, scale : Scales, transform : {0}]

NextTree ==
    \/ \E p \in NodeIds : wlr_scene_tree_create(p, MaxNodes)
    \/ \E p \in NodeIds : wlr_scene_rect_create(p, 1, 1, MaxNodes)
    \/ \E p \in NodeIds, b \in {NULL, MaxBuffers} :
          wlr_scene_buffer_create(p, b, MaxNodes, MaxNodes)
    \/ \E n \in NodeIds : NodeDestroy(n)
    \/ \E n \in NodeIds, sibling \in NodeIds : wlr_scene_node_place_above(n, sibling)
    \/ \E n \in NodeIds, sibling \in NodeIds : wlr_scene_node_place_below(n, sibling)
    \/ \E n \in NodeIds : wlr_scene_node_raise_to_top(n)
    \/ \E n \in NodeIds : wlr_scene_node_lower_to_bottom(n)
    \/ \E n \in NodeIds, p \in NodeIds : wlr_scene_node_reparent(n, p)
    \/ \E o \in TreeOutputs : OutputCreate(o, MaxOutputs)

SpecTree == InitTree /\ [][NextTree]_vars

\* SpecIdx: scene-outputs alone.  Identical outputs are created until the
\* create that finds 64 listed, and destroyed while at most MaxHoles indices
\* below the largest one are free.
InitIdx == InitScene("none", {})

IdxOutput == [width |-> 1, height |-> 1, scale |-> 2, transform |-> 0]

Holes(outs) ==
    LET used == {outs[i].index : i \in 1..Len(outs)}
    IN Cardinality({j \in 0..(WLR_SCENE_MAX_OUTPUTS - 1) :
                       j \notin used /\ \E u \in used : j < u})

NextIdx ==
    \/ OutputCreate(IdxOutput, WLR_SCENE_MAX_OUTPUTS + 1)
    \/ \E id \in OutputIds :
          /\ Holes(SelectSeq(outputs, LAMBDA so : so.id # id)) <= MaxHoles
          /\ OutputDestroy(id)

SpecIdx == InitIdx /\ [][NextIdx]_vars

\* SpecCommit: wlr_scene_output_commit in each debug mode, over scenes of a
\* buffer node and a rect or tree under outputs of either transform, with
\* the host's calls recorded.
InitCommit ==
    \E option \in DebugDamageOptions : InitScene(option, {"calls"})

CommitOutputs == [width : Dims, height : {1}, scale : Scales, transform : Transforms]

\* The damage returned to the renderer is left empty: the rendering is not
\* recorded in SpecCommit.
CommitReplies ==
    IF debug_damage_option = "highlight"
    THEN {host \in HostReplies(Regions, {0, HIGHLIGHT_DAMAGE_FADEOUT_TIME}) :
             host.test_ok /\ host.scanout_commit_ok /\ host.damage = {}}
    ELSE {host \in HostReplies({{}}, {0}) : host.damage = {}}

NextCommit ==
    \/ \E p \in NodeIds : wlr_scene_tree_create(p, MaxCommitNodes)
    \/ \E p \in NodeIds, w \in Dims : wlr_scene_rect_create(p, w, 1, MaxCommitNodes)
    \/ \E p \in NodeIds, b \in {NULL, MaxBuffers} :
          wlr_scene_buffer_create(p, b, MaxCommitNodes, MaxSceneBuffers)
    \/ \E n \in NonRoot, e \in BOOLEAN : wlr_scene_node_set_enabled(n, e)
    \/ \E n \in NodeIds, b \in {NULL, MaxBuffers} : wlr_scene_buffer_set_buffer(n, b)
    \/ \E n \in NodeIds, w \in 0..1 :
          wlr_scene_buffer_set_source_box(n, [EmptyFBox EXCEPT !.width = w, !.height = w])
    \/ \E n \in NodeIds, d \in 0..1 : wlr_scene_buffer_set_dest_size(n, d, d)
    \/ \E n \in NodeIds, t \in Transforms : wlr_scene_buffer_set_transform(n, t)
    \/ \E o \in CommitOutputs : OutputCreate(o, 1)
    \/ \E id \in OutputIds, host \in CommitReplies : wlr_scene_output_commit(id, host)

SpecCommit == InitCommit /\ [][NextCommit]_vars

\* SpecDamage: what whole-node damage reaches the outputs.  Trees, unit rects
\* and one buffer node are created, enabled, disabled and moved along x under
\* one output; the buffer node takes buffers with and without a damage region.
InitDamage == InitScene("none", {"damage", "op"})

DamageOutput == [width |-> MaxDim, height |-> 1, scale |-> 2, transform |-> 0]

DamageRegions == {<<>>, <<[x1 |-> 0, y1 |-> 0, x2 |-> 1, y2 |-> 1]>>}

NextDamage ==
    \/ \E p \in NodeIds : wlr_scene_tree_create(p, MaxDamageNodes)
    \/ \E p \in NodeIds : wlr_scene_rect_create(p, 1, 1, MaxDamageNodes)
    \/ \E p \in NodeIds : wlr_scene_buffer_create(p, 1, MaxDamageNodes, 1)
    \/ \E n \in NodeIds, e \in BOOLEAN : wlr_scene_node_set_enabled(n, e)
    \/ \E n \in Rects \cup SceneBuffers, x \in XCoords : wlr_scene_node_set_position(n, x, 0)
    \/ \E n \in NodeIds, b \in {NULL, 1}, d \in DamageRegions :
          wlr_scene_buffer_set_buffer_with_damage(n, b, d)
    \/ OutputCreate(DamageOutput, 1)

SpecDamage == InitDamage /\ [][NextDamage]_vars

\* SpecSet: every setter, with each value a field can be given twice over.
\* One rect or one buffer node, under the root or a tree, and one output;
\* damage and the membership signals are recorded.
InitSet == InitScene("none", {"damage", "output_enter", "output_leave", "op"})

SetOutputs == [width : {1}, height : {1}, scale : Scales, transform : {0}]

SourceBoxes == {[EmptyFBox EXCEPT !.width = w, !.height = w] : w \in 0..1}

NextSet ==
    \/ \E p \in NodeIds : wlr_scene_tree_create(p, MaxSetNodes)
    \/ \E p \in NodeIds : Rects \cup SceneBuffers = {} /\ wlr_scene_rect_create(p, 1, 1, MaxSetNodes)
    \/ \E p \in NodeIds : Rects \cup SceneBuffers = {} /\ wlr_scene_buffer_create(p, 1, MaxSetNodes, 1)
    \/ \E n \in NonRoot, e \in BOOLEAN : wlr_scene_node_set_enabled(n, e)
    \/ \E n \in NonRoot, x \in XCoords : wlr_scene_node_set_position(n, x, 0)
    \/ \E n \in NodeIds, p \in NodeIds : wlr_scene_node_reparent(n, p)
    \/ \E n \in NodeIds, w \in Dims : wlr_scene_rect_set_size(n, w, 1)
    \/ \E n \in NodeIds, c \in 0..MaxColor : wlr_scene_rect_set_color(n, c)
    \/ \E n \in NodeIds, b \in {NULL, 1} : wlr_scene_buffer_set_buffer(n, b)
    \/ \E n \in NodeIds, box \in SourceBoxes : wlr_scene_buffer_set_source_box(n, box)
    \/ \E n \in NodeIds, d \in 0..MaxDst : wlr_scene_buffer_set_dest_size(n, d, d)
    \/ \E n \in NodeIds, t \in Transforms : wlr_scene_buffer_set_transform(n, t)
    \/ \E o \in SetOutputs : OutputCreate(o, 1)
    \/ \E id \in OutputIds, x \in XCoords : wlr_scene_output_set_position(id, x, 0)

SpecSet == InitSet /\ [][NextSet]_vars

\* SpecOrder: the order of siblings.  Up to MaxOrderNodes trees and unit rects
\* are created and restacked under one output, with the damage recorded.
InitOrder == InitScene("none", {"damage", "op"})

NextOrder ==
    \/ \E p \in NodeIds : wlr_scene_tree_create(p, MaxOrderNodes)
    \/ \E p \in NodeIds : wlr_scene_rect_create(p, 1, 1, MaxOrderNodes)
    \/ \E n \in NodeIds, sibling \in NodeIds : wlr_scene_node_place_above(n, sibling)
    \/ \E n \in NodeIds, sibling \in NodeIds : wlr_scene_node_place_below(n, sibling)
    \/ \E n \in NodeIds : wlr_scene_node_raise_to_top(n)
    \/ \E n \in NodeIds : wlr_scene_node_lower_to_bottom(n)
    \/ OutputCreate(DamageOutput, 1)

SpecOrder == InitOrder /\ [][NextOrder]_vars

\* SpecLock: the locks on the platform's buffers.  Buffer nodes are created
\* with no buffer or the last one, under the root or a tree, given any buffer
\* with or without a damage region, and destroyed alone or with their tree.
InitLock == InitScene("none", {"op"})

NextLock ==
    \/ \E p \in NodeIds : wlr_scene_tree_create(p, MaxLockNodes)
    \/ \E p \in NodeIds, b \in {NULL, MaxBuffers} :
          wlr_scene_buffer_create(p, b, MaxLockNodes, MaxLockNodes)
    \/ \E n \in NodeIds, b \in BufferIds \cup {NULL} : wlr_scene_buffer_set_buffer(n, b)
    \/ \E n \in NodeIds, b \in BufferIds \cup {NULL}, d \in DamageRegions :
          wlr_scene_buffer_set_buffer_with_damage(n, b, d)
    \/ \E n \in NodeIds : NodeDestroy(n)

SpecLock == InitLock /\ [][NextLock]_vars

\* SpecRender: what one wlr_scene_output_commit asks of the output and the
\* renderer.  A unit rect and a buffer node, with the unit buffer or none,
\* are created, enabled and disabled under the root below one unit output, in
\* each debug mode; the calls, the rendering, the damage and output_present
\* are recorded.
InitRender ==
    \E option \in DebugDamageOptions :
        InitScene(option, {"calls", "render", "damage", "output_present"})

RenderOutput == [width |-> 1, height |-> 1, scale |-> 2, transform |-> 0]

RenderReplies ==
    IF debug_damage_option = "highlight"
    THEN {host \in HostReplies(Regions, {0, HIGHLIGHT_DAMAGE_FADEOUT_TIME}) :
             host.test_ok /\ host.scanout_commit_ok}
    ELSE HostReplies({{}}, {0})

NextRender ==
    \/ \E p \in NodeIds : wlr_scene_rect_create(p, 1, 1, MaxRenderNodes)
    \/ \E p \in NodeIds, b \in {NULL, MaxBuffers} :
          wlr_scene_buffer_create(p, b, MaxRenderNodes, 1)
    \/ \E n \in NonRoot, e \in BOOLEAN : wlr_scene_node_set_enabled(n, e)
    \/ OutputCreate(RenderOutput, 1)
    \/ \E id \in OutputIds, host \in RenderReplies : wlr_scene_output_commit(id, host)

SpecRender == InitRender /\ [][NextRender]_vars

\* SpecQuery: the two walks that read the scene.  Trees, unit rects and
\* buffer nodes are created, moved, enabled and disabled; buffer nodes are
\* given a callback or none; every node is walked and the root probed at every
\* point of a small grid, with the iterator's calls recorded.
InitQuery == InitScene("none", {"calls", "op"})

\* The callbacks a host installs: <<>> is the null pointer; one rejects every
\* point, one accepts exactly the points right of a unit box.
PointFilters == {<<>>, <<{}>>, <<{<<1, 0>>}>>}

QueryXs == 0..MaxQueryCoord

NextQuery ==
    \/ \E p \in NodeIds : wlr_scene_tree_create(p, MaxQueryNodes)
    \/ \E p \in NodeIds : wlr_scene_rect_create(p, 1, 1, MaxQueryNodes)
    \/ \E p \in NodeIds : wlr_scene_buffer_create(p, MaxBuffers, MaxQueryNodes, MaxQueryNodes)
    \/ \E n \in NonRoot, e \in BOOLEAN : wlr_scene_node_set_enabled(n, e)
    \/ \E n \in NonRoot, x \in XCoords : wlr_scene_node_set_position(n, x, 0)
    \/ \E n \in NodeIds, f \in PointFilters : AssignPointAcceptsInput(n, f)
    \/ \E n \in NodeIds : wlr_scene_node_for_each_buffer(n)
    \/ \E lx \in QueryXs, ly \in 0..1 : NodeAt(Root, lx, ly)

SpecQuery == InitQuery /\ [][NextQuery]_vars

\* SpecCoords: the position of a node in the scene.  Trees and unit rects
\* are created, moved in both directions, enabled, disabled and reparented,
\* the root included, and the coordinates of every node are asked for.
InitCoords == InitScene("none", {"calls", "op"})

NextCoords ==
    \/ \E p \in NodeIds : wlr_scene_tree_create(p, MaxCoordsNodes)
    \/ \E p \in NodeIds : wlr_scene_rect_create(p, 1, 1, MaxCoordsNodes)
    \/ \E n \in NodeIds, e \in BOOLEAN : wlr_scene_node_set_enabled(n, e)
    \/ \E n \in NodeIds, x \in XCoords, y \in XCoords : wlr_scene_node_set_position(n, x, y)
    \/ \E n \in NodeIds, p \in NodeIds : wlr_scene_node_reparent(n, p)
    \/ \E n \in NodeIds : NodeCoords(n)

SpecCoords == InitCoords /\ [][NextCoords]_vars

\* SpecMove: moving a node under outputs of several scales.  A 10x10 rect
\* and a buffer node are created under the root or a tree, moved, enabled and
\* disabled under up to MaxMoveOutputs outputs of scale 1.5 or 2 that are
\* moved as well; damage and the membership signals are recorded.
InitMove == InitScene("none", {"damage", "output_enter", "output_leave", "op"})

MoveXs == {5, 6}
MoveYs == {5}
MoveScales == {3, 4}
MoveOutputs == [width : {12}, height : {12}, scale : MoveScales, transform : {0}]

NextMove ==
    \/ \E p \in NodeIds : wlr_scene_tree_create(p, MaxMoveNodes)
    \/ \E p \in NodeIds : wlr_scene_rect_create(p, 10, 10, MaxMoveNodes)
    \/ \E p \in NodeIds : wlr_scene_buffer_create(p, 1, MaxMoveNodes, 1)
    \/ \E n \in NonRoot, e \in BOOLEAN : wlr_scene_node_set_enabled(n, e)
    \/ \E n \in NonRoot, x \in MoveXs, y \in MoveYs : wlr_scene_node_set_position(n, x, y)
    \/ \E o \in MoveOutputs : OutputCreate(o, MaxMoveOutputs)
    \/ \E id \in OutputIds, x \in XCoords : wlr_scene_output_set_position(id, x, 0)

SpecMove == InitMove /\ [][NextMove]_vars

\* SpecPartial: damage given with a buffer.  One buffer node under the root
\* is moved, turned, given source boxes and destination sizes (one of them
\* zero included) and buffers with and without a damage region, under one
\* output of scale 1 or 1.5 that is moved as well; the damage is recorded.
InitPartial == InitScene("none", {"damage", "op"})

\* <<>> is the null pointer; the regions are one cell, a strip that leaves the
\* wider buffer on the right, and a square that covers every buffer.
PartialRegions ==
    {<<>>,
     <<[x1 |-> 0, y1 |-> 0, x2 |-> 1, y2 |-> 1]>>,
     <<[x1 |-> 1, y1 |-> 0, x2 |-> MaxDim + 1, y2 |-> 1]>>,
     <<[x1 |-> 0, y1 |-> 0, x2 |-> MaxDim, y2 |-> MaxDim]>>}

PartialOutputs == [width : {MaxDim + 1}, height : {MaxDim}, scale : {2, 3}, transform : {0}]

NextPartial ==
    \/ \E b \in BufferIds : wlr_scene_buffer_create(Root, b, 1, 1)
    \/ \E n \in NonRoot, e \in BOOLEAN : wlr_scene_node_set_enabled(n, e)
    \/ \E n \in NonRoot, x \in XCoords : wlr_scene_node_set_position(n, x, 0)
    \/ \E n \in NodeIds, box \in SourceBoxes : wlr_scene_buffer_set_source_box(n, box)
    \/ \E n \in NodeIds, w \in 0..MaxDim, h \in 0..1 : wlr_scene_buffer_set_dest_size(n, w, h)
    \/ \E n \in NodeIds, t \in Transforms : wlr_scene_buffer_set_transform(n, t)
    \/ \E n \in NodeIds, b \in BufferIds, d \in PartialRegions :
          wlr_scene_buffer_set_buffer_with_damage(n, b, d)
    \/ \E o \in PartialOutputs : OutputCreate(o, 1)
    \/ \E id \in OutputIds, x \in XCoords : wlr_scene_output_set_position(id, x, 0)

SpecPartial == InitPartial /\ [][NextPartial]_vars

\* SpecTexture: the texture a buffer node caches.  One buffer node is
\* created with a plain buffer, a client buffer or none, given buffers with
\* and without a damage region, enabled, disabled and destroyed, and drawn on
\* up to MaxTextureOutputs outputs of scale 1; the damage and the textures
\* destroyed are recorded.
InitTexture == InitScene("none", {"damage", "texture", "op"})

TextureOutput == [width |-> MaxDim + 1, height |-> 1, scale |-> 2, transform |-> 0]

TextureReplies == {host \in HostReplies({{}}, {0}) : host.damage = {}}

NextTexture ==
    \/ \E b \in BufferIds \cup {NULL} : wlr_scene_buffer_create(Root, b, 1, 1)
    \/ \E n \in NonRoot, e \in BOOLEAN : wlr_scene_node_set_enabled(n, e)
    \/ \E n \in NonRoot, x \in XCoords : wlr_scene_node_set_position(n, x, 0)
    \/ \E n \in NodeIds, b \in BufferIds \cup {NULL} : wlr_scene_buffer_set_buffer(n, b)
    \/ \E n \in NodeIds, b \in BufferIds, d \in DamageRegions :
          wlr_scene_buffer_set_buffer_with_damage(n, b, d)
    \/ \E n \in NonRoot : NodeDestroy(n)
    \/ OutputCreate(TextureOutput, MaxTextureOutputs)
    \/ \E id \in OutputIds, x \in XCoords : wlr_scene_output_set_position(id, x, 0)
    \/ \E id \in OutputIds, host \in TextureReplies : wlr_scene_output_commit(id, host)

SpecTexture == InitTexture /\ [][NextTexture]_vars

\* SpecScale: scale_box on its own.  Two boxes, at negative coordinates and
\* empty ones included, and a scale from 0.5 to MaxScale / 2 in halves are
\* drawn, and both boxes are scaled.
ScaleInputs ==
    [a : [x : (-MaxScaleCoord)..MaxScaleCoord, y : {-1, 0},
          width : 0..MaxScaleCoord, height : {1, 2}],
     b : [x : (-MaxScaleCoord)..(2 * MaxScaleCoord), y : -1..2,
          width : {1, 2}, height : {1}],
     scale : 1..MaxScale]

InitScale ==
    /\ nodes = [n \in NodeIds |->
                   IF n = Root THEN scene_node_init("tree", NULL) ELSE FreeNode]
    /\ outputs = <<>>
    /\ debug_damage_option = "none"
    /\ damage_highlight_regions = <<>>
    /\ events = <<>>
    /\ damage = <<>>
    /\ calls = <<>>
    /\ \E in \in ScaleInputs : ret = [op |-> "", status |-> "ok", value |-> in]
    /\ n_locks = [b \in BufferIds |-> 0]
    /\ observed = {"op"}

\* scale_box(&a, scale); scale_box(&b, scale); the result holds the boxes as
\* they were and as they are.
ScaleBoxes ==
    /\ ret.op = ""
    /\ ret' = [op |-> "scale_box", status |-> "ok",
               value |-> [in |-> ret.value,
                          a |-> scale_box(ret.value.a, ret.value.scale),
                          b |-> scale_box(ret.value.b, ret.value.scale)]]
    /\ UNCHANGED <<nodes, outputs, debug_damage_option, damage_highlight_regions,
                   events, damage, calls, n_locks, observed>>

NextScale == ScaleBoxes

SpecScale == InitScale /\ [][NextScale]_vars

\* SpecHighlight: the highlight list.  In debug mode highlight, one
\* output is committed with every damage of MaxHighlightCells cells the
\* damage tracker can hold, no time, half the fade-out time or all of it
\* having passed since the last commit, and a frame being needed or not; the
\* damage is recorded.
InitHighlight == InitScene("highlight", {"damage", "op"})

HighlightOutput == [width |-> MaxHighlightCells, height |-> 1, scale |-> 2, transform |-> 0]

HighlightReplies ==
    {host \in HostReplies(SUBSET (1..MaxHighlightCells),
                 {0, HIGHLIGHT_DAMAGE_FADEOUT_TIME \div 2, HIGHLIGHT_DAMAGE_FADEOUT_TIME}) :
        /\ host.test_ok /\ host.scanout_commit_ok /\ host.damage = {}
        /\ host.attach_ok /\ host.commit_ok}

NextHighlight ==
    \/ wlr_scene_rect_create(Root, 1, 1, 1)
    \/ OutputCreate(HighlightOutput, 1)
    \/ \E id \in OutputIds, host \in HighlightReplies : wlr_scene_output_commit(id, host)

SpecHighlight == InitHighlight /\ [][NextHighlight]_vars

\* SpecPresent: which buffer nodes are told output_present.  A tree and
\* buffer nodes with the unit buffer or none are created, enabled, disabled
\* and moved along x under unit outputs that are moved too; each commit's
\* output_present signals are recorded.
InitPresent == InitScene("none", {"output_present", "op"})

NextPresent ==
    \/ \E p \in NodeIds : wlr_scene_tree_create(p, MaxPresentNodes)
    \/ \E p \in NodeIds, b \in {NULL, MaxBuffers} :
          wlr_scene_buffer_create(p, b, MaxPresentNodes, MaxPresentNodes)
    \/ \E n \in NonRoot, e \in BOOLEAN : wlr_scene_node_set_enabled(n, e)
    \/ \E n \in NonRoot, x \in XCoords : wlr_scene_node_set_position(n, x, 0)
    \/ OutputCreate(RenderOutput, MaxPresentOutputs)
    \/ \E id \in OutputIds, x \in XCoords : wlr_scene_output_set_position(id, x, 0)
    \/ \E id \in OutputIds, host \in TextureReplies : wlr_scene_output_commit(id, host)

SpecPresent == InitPresent /\ [][NextPresent]_vars

\* ------------------------------------------------------------ claims
\* The points two boxes share, stated on the boxes' edges.
BoxesIntersect(a, b) ==
    /\ a.width > 0 /\ a.height > 0 /\ b.width > 0 /\ b.height > 0
    /\ a.x < b.x + b.width /\ b.x < a.x + a.width
    /\ a.y < b.y + b.height /\ b.y < a.y + a.height

\* The number of unit cells two boxes share.
OverlapArea(a, b) ==
    Cardinality({c \in (a.x..(a.x + a.width - 1)) \X (a.y..(a.y + a.height - 1)) :
        /\ b.x <= c[1] /\ c[1] < b.x + b.width
        /\ b.y <= c[2] /\ c[2] < b.y + b.height})

\* C1: in every state the operations reach, for every buffer node (enabled or
\* not, under enabled or disabled ancestors) and every live scene-output, the
\* bit of the output's index is set in active_outputs exactly when the node's
\* box and the output's viewport intersect.
C1_Membership ==
    \A b \in SceneBuffers : \A i \in 1..Len(outputs) :
        (outputs[i].index \in nodes[b].active_outputs)
            <=> BoxesIntersect(NodeBox(nodes, b), OutputBox(outputs[i]))

\* A disabled buffer node at a non-zero offset inside a disabled, offset tree,
\* on one of two outputs and off the other.
C1_Witness ==
    \E b \in SceneBuffers :
        /\ ~nodes[b].enabled /\ nodes[b].x > 0
        /\ nodes[b].parent # Root /\ ~nodes[nodes[b].parent].enabled
        /\ nodes[nodes[b].parent].x > 0
        /\ Len(outputs) = 2
        /\ \E i, j \in 1..2 :
            /\ outputs[i].index \in nodes[b].active_outputs
            /\ outputs[j].index \notin nodes[b].active_outputs

\* C2: a buffer node's primary_output is null exactly when active_outputs is
\* empty; otherwise it is a live output whose bit is set, no output overlaps
\* the node more, and every output before it in the list overlaps it less.
C2_Primary ==
    \A b \in SceneBuffers :
        LET box == NodeBox(nodes, b)
            area(i) == OverlapArea(box, OutputBox(outputs[i]))
        IN /\ (nodes[b].primary_output = NULL) <=> (nodes[b].active_outputs = {})
           /\ nodes[b].primary_output # NULL =>
                \E i \in 1..Len(outputs) :
                    /\ outputs[i].id = nodes[b].primary_output
                    /\ outputs[i].index \in nodes[b].active_outputs
                    /\ \A j \in 1..Len(outputs) : area(j) <= area(i)
                    /\ \A j \in 1..(i - 1) : area(j) < area(i)

\* A node with equal overlaps on two outputs (the first listed is primary),
\* and a node whose larger overlap is on the second listed output.
C2_Witness ==
    /\ Len(outputs) = 2
    /\ \E b \in SceneBuffers :
        LET box == NodeBox(nodes, b)
        IN /\ OverlapArea(box, OutputBox(outputs[1])) > 0
           /\ OverlapArea(box, OutputBox(outputs[1])) = OverlapArea(box, OutputBox(outputs[2]))
           /\ nodes[b].primary_output = outputs[1].id
           /\ outputs[1].x # outputs[2].x

\* The positions in a signal log of the signal `sig` delivered for node b.
EventsOf(evs, sig, b) == {k \in 1..Len(evs) : evs[k].sig = sig /\ evs[k].node = b}

HasOutput(outs, id) == \E i \in 1..Len(outs) : outs[i].id = id

\* The index of the output a signal names: an output listed before the
\* operation, or else one the operation created.
OutputIndex(before, after, id) ==
    IF HasOutput(before, id) THEN OutputById(before, id).index
    ELSE OutputById(after, id).index

\* C3: in every operation and for every buffer node, the outputs named by the
\* output_enter signals the node receives are exactly the indices in its new
\* active_outputs and not in its old one, the outputs named by its
\* output_leave signals are exactly those in the old and not in the new, and
\* each is named once (so none is both entered and left).
C3_EnterLeave ==
    [][\A b \in NodeIds :
        LET before == nodes[b].active_outputs
            after == nodes'[b].active_outputs
            idx(k) == OutputIndex(outputs, outputs', events'[k].arg)
            enters == EventsOf(events', "output_enter", b)
            leaves == EventsOf(events', "output_leave", b)
        IN /\ {idx(k) : k \in enters} = after \ before
           /\ Cardinality(enters) = Cardinality(after \ before)
           /\ {idx(k) : k \in leaves} = before \ after
           /\ Cardinality(leaves) = Cardinality(before \ after)]_vars

\* One operation moved a live buffer node off one output and onto another.
C3_Witness ==
    \E b \in SceneBuffers :
        /\ EventsOf(events, "output_enter", b) # {}
        /\ EventsOf(events, "output_leave", b) # {}
        /\ nodes[b].active_outputs # {}

\* The buffer nodes enabled along their whole path whose primary output is id.
FrameDoneTargets(ns, id) ==
    {b \in NodeIds : /\ ns[b].type = "buffer"
                     /\ ns[b].primary_output = id
                     /\ wlr_scene_node_coords(ns, b).enabled}

\* C4: wlr_scene_output_send_frame_done(o) delivers frame_done once to each
\* buffer node that is enabled along its path and has primary_output = o and
\* to no other node; and no buffer node is a target of two scene-outputs.
C4_FrameDone ==
    /\ [][\A id \in OutputIds :
            wlr_scene_output_send_frame_done(id) =>
                \A b \in NodeIds :
                    /\ Cardinality(EventsOf(events', "frame_done", b))
                          = IF b \in FrameDoneTargets(nodes, id) THEN 1 ELSE 0
                    /\ \A k \in EventsOf(events', "frame_done", b) :
                          events'[k].arg = id]_vars
    /\ [](\A b \in NodeIds :
            Cardinality({id \in OutputIds : b \in FrameDoneTargets(nodes, id)}) <= 1)

\* frame_done reached a node that is on two outputs, and skipped another node
\* with the same primary output that is disabled.
C4_Witness ==
    \E k \in 1..Len(events) :
        /\ events[k].sig = "frame_done"
        /\ Cardinality(nodes[events[k].node].active_outputs) = 2
        /\ \E b \in SceneBuffers :
              /\ nodes[b].primary_output = events[k].arg
              /\ ~nodes[b].enabled
              /\ EventsOf(events, "frame_done", b) = {}

\* C9: every operation that takes a scene-output o off the list delivers output_leave(o) exactly once to
\* each buffer node that had o's bit and to no other node, and leaves no
\* buffer node with o's bit or with primary_output = o; hence in every state
\* every set bit and every primary output belongs to a listed output.
C9_OutputDestroy ==
    /\ [][\A id \in OutputIds :
            ~HasOutput(outputs', id) =>
                LET index == OutputById(outputs, id).index
                IN \A b \in SceneBuffers :
                    /\ Cardinality({k \in EventsOf(events', "output_leave", b) :
                                        events'[k].arg = id})
                          = IF index \in nodes[b].active_outputs THEN 1 ELSE 0
                    /\ index \notin nodes'[b].active_outputs
                    /\ nodes'[b].primary_output # id]_vars
    /\ [](\A b \in SceneBuffers :
            /\ nodes[b].active_outputs \subseteq {outputs[i].index : i \in 1..Len(outputs)}
            /\ nodes[b].primary_output \in OutputIds \cup {NULL})

\* An output was destroyed under a node that stays on the other output: the
\* node got output_leave for the destroyed one and a new primary output.
C9_Witness ==
    /\ Len(outputs) = 1
    /\ \E b \in SceneBuffers : \E k \in EventsOf(events, "output_leave", b) :
          /\ events[k].arg \notin OutputIds
          /\ nodes[b].active_outputs = {outputs[1].index}
          /\ nodes[b].primary_output = outputs[1].id

\* C10: every output_enter and output_leave a recomputation delivers to a
\* node that outlives the operation was emitted with the node's final
\* active_outputs, primary_output and box already stored.
C10_TwoPass ==
    \A k \in 1..Len(events) :
        LET e == events[k]
        IN (e.sig \in {"output_enter", "output_leave"} /\ Live(nodes, e.node)) =>
              /\ e.active = nodes[e.node].active_outputs
              /\ e.primary = nodes[e.node].primary_output
              /\ e.box = NodeBox(nodes, e.node)

\* output_enter for the first listed output was delivered when the bit of the
\* second listed output, scanned later, was already stored, after a move.
C10_Witness ==
    /\ Len(outputs) = 2
    /\ \E k \in 1..Len(events) :
          /\ events[k].sig = "output_enter"
          /\ events[k].arg = outputs[1].id
          /\ Live(nodes, events[k].node)
          /\ outputs[2].index \in events[k].active
          /\ events[k].primary # NULL
          /\ events[k].box.x > 0

RECURSIVE Up(_, _, _)
\* The k-th ancestor of n following parent pointers (NULL above the root).
Up(ns, n, k) == IF k = 0 \/ n = NULL THEN n ELSE Up(ns, ns[n].parent, k - 1)

Occurrences(seq, n) == Cardinality({i \in 1..Len(seq) : seq[i] = n})

RECURSIVE DescendantsOrSelf(_, _)
\* n and everything below it following children lists.
DescendantsOrSelf(ns, n) ==
    {n} \cup UNION {DescendantsOrSelf(ns, ns[n].children[i]) : i \in 1..Len(ns[n].children)}

\* C5: in every state only the scene root has a null parent, every other live
\* node has a live tree as parent and appears exactly once in that tree's
\* children and in no other list, and no node is its own ancestor; and a
\* wlr_scene_node_reparent whose new parent is the node or one of its
\* descendants aborts with the tree unchanged and no damage or signal emitted.
C5_TreeWellFormed ==
    /\ [](\A n \in NodeIds : Live(nodes, n) =>
            /\ (nodes[n].parent = NULL) <=> (n = Root)
            /\ n # Root => /\ Live(nodes, nodes[n].parent)
                           /\ nodes[nodes[n].parent].type = "tree"
            /\ \A t \in NodeIds :
                  Occurrences(nodes[t].children, n)
                    = IF n # Root /\ t = nodes[n].parent THEN 1 ELSE 0
            /\ \A k \in 1..Cardinality(NodeIds) : Up(nodes, n, k) # n)
    /\ [][\A n \in NodeIds, p \in NodeIds :
            (p \in DescendantsOrSelf(nodes, n) /\ wlr_scene_node_reparent(n, p)) =>
                /\ ret'.status = "abort"
                /\ nodes' = nodes
                /\ damage' = <<>> /\ events' = <<>>]_vars

\* A reparent aborted in a scene with an output where a tree holds a tree that
\* holds a visible node: moving the outer tree into the inner one is refused.
C5_Witness ==
    /\ ret.op = "reparent" /\ ret.status = "abort"
    /\ Len(outputs) > 0
    /\ \E a \in Trees, b \in Trees, c \in NodeIds :
          /\ nodes[a].parent = Root /\ nodes[b].parent = a /\ nodes[c].parent = b
          /\ nodes[c].type \in {"rect", "buffer"}
          /\ nodes[c].active_outputs # {} \/ nodes[c].type = "rect"

\* C7: wlr_scene_node_destroy(n) delivers destroy exactly once to each node of
\* n's subtree and to no other, a parent's before its children's; delivers
\* output_leave to each buffer node of the subtree exactly once for each
\* output that was in its active_outputs and for no other, each while the node
\* is still allocated; and frees the whole subtree.
C7_DestroyOrder ==
    [][\A n \in NodeIds :
        NodeDestroy(n) =>
            LET sub == DescendantsOrSelf(nodes, n)
                pos(m) == CHOOSE k \in EventsOf(events', "destroy", m) : TRUE
            IN /\ \A m \in NodeIds :
                     Cardinality(EventsOf(events', "destroy", m))
                       = IF m \in sub THEN 1 ELSE 0
               /\ \A m \in sub \ {n} : pos(nodes[m].parent) < pos(m)
               /\ \A b \in NodeIds : \A i \in 1..Len(outputs) :
                     Cardinality({k \in EventsOf(events', "output_leave", b) :
                                     events'[k].arg = outputs[i].id})
                       = IF /\ b \in sub /\ nodes[b].type = "buffer"
                            /\ outputs[i].index \in nodes[b].active_outputs
                         THEN 1 ELSE 0
               /\ \A k \in 1..Len(events') : events'[k].live
               /\ \A m \in sub : ~Live(nodes', m)]_vars

\* A subtree two levels deep went away and one of its buffer nodes left two
\* outputs.
C7_Witness ==
    /\ Live(nodes, Root)
    /\ \E m \in NodeIds : \E k \in EventsOf(events, "destroy", m) : k > 1
    /\ \E b \in NodeIds : Cardinality(EventsOf(events, "output_leave", b)) = 2

\* The smallest index no listed scene-output uses.
MinFreeIndex(outs) ==
    CHOOSE j \in 0..WLR_SCENE_MAX_OUTPUTS :
        /\ \A i \in 1..Len(outs) : outs[i].index # j
        /\ \A l \in 0..(j - 1) : \E i \in 1..Len(outs) : outs[i].index = l

\* C8: in every state the listed scene-outputs have indices in [0, 64) in
\* strictly ascending list order; a wlr_scene_output_create with fewer than 64
\* listed adds one output whose index is the smallest unused one, and with 64
\* listed it aborts and lists nothing new.
C8_IndexAllocation ==
    /\ [](/\ \A i \in 1..Len(outputs) :
                outputs[i].index \in 0..(WLR_SCENE_MAX_OUTPUTS - 1)
          /\ \A i \in 1..Len(outputs) : \A j \in (i + 1)..Len(outputs) :
                outputs[i].index < outputs[j].index)
    /\ [][OutputCreate(IdxOutput, WLR_SCENE_MAX_OUTPUTS + 1) =>
            IF Len(outputs) = WLR_SCENE_MAX_OUTPUTS
            THEN ret'.status = "abort" /\ outputs' = outputs
            ELSE /\ ret'.status = "ok"
                 /\ Len(outputs') = Len(outputs) + 1
                 /\ {outputs'[i].index : i \in 1..Len(outputs')}
                      = {outputs[i].index : i \in 1..Len(outputs)}
                          \cup {MinFreeIndex(outputs)}]_vars

\* The create that found 64 scene-outputs listed aborted.
C8_Witness ==
    /\ Len(outputs) = WLR_SCENE_MAX_OUTPUTS
    /\ ret.op = "output_create" /\ ret.status = "abort"

\* The step is a wlr_scene_output_commit of scene-output id: every commit
\* calls the host on behalf of its output, and nothing else does.
CommitOf(id) == Len(calls') > 0 /\ calls'[1].output = id

Called(log, fn) == \E k \in 1..Len(log) : log[k].fn = fn

\* The host accepted the attached buffer and then committed it.
ScanoutAccepted(log) ==
    \E k \in 1..(Len(log) - 1) :
        /\ log[k].fn = "wlr_output_test" /\ log[k].result
        /\ log[k + 1].fn = "wlr_output_commit" /\ log[k + 1].result

\* The conditions of scan-out: the debug mode is not highlight, exactly one
\* node enabled along its path intersects the viewport of scene-output id,
\* and that node has the viewport's box and is a buffer node with a buffer,
\* an empty src_box and the output's transform.
ScanoutConditions(id) ==
    LET scene_output == OutputById(outputs, id)
        viewport == OutputBox(scene_output)
        visible == {n \in NodeIds :
                       /\ Live(nodes, n)
                       /\ wlr_scene_node_coords(nodes, n).enabled
                       /\ BoxesIntersect(NodeBox(nodes, n), viewport)}
    IN /\ debug_damage_option # "highlight"
       /\ Cardinality(visible) = 1
       /\ \A n \in visible :
             /\ NodeBox(nodes, n) = viewport
             /\ nodes[n].type = "buffer"
             /\ nodes[n].buffer # NULL
             /\ (nodes[n].src_box.width <= 0 \/ nodes[n].src_box.height <= 0)
             /\ nodes[n].transform = scene_output.transform

\* C6 as stated: a wlr_scene_output_commit takes scan-out (prev_scanout is
\* set and nothing is composited) exactly when the conditions of scan-out hold.
C6_ScanoutIff ==
    [][\A id \in OutputIds :
        CommitOf(id) =>
            (OutputById(outputs', id).prev_scanout <=> ScanoutConditions(id))]_vars

\* C6, amended: a wlr_scene_output_commit attaches a node's buffer to the
\* output for scan-out exactly when the conditions of scan-out hold, and takes
\* scan-out exactly when they hold and the host's wlr_output_test and the
\* wlr_output_commit that follows it both succeed; then it returns true
\* without compositing.
C6_ScanoutAttempt ==
    [][\A id \in OutputIds :
        CommitOf(id) =>
            /\ Called(calls', "wlr_output_attach_buffer") <=> ScanoutConditions(id)
            /\ OutputById(outputs', id).prev_scanout
                  <=> (ScanoutConditions(id) /\ ScanoutAccepted(calls'))
            /\ OutputById(outputs', id).prev_scanout =>
                  (ret'.value /\ ~Called(calls', "wlr_output_damage_attach_render"))]_vars

\* Scan-out was taken for a buffer node inside an enabled tree, on an output
\* with a transform.
C6_Witness ==
    /\ Len(outputs) = 1 /\ outputs[1].prev_scanout /\ outputs[1].transform # 0
    /\ ScanoutAccepted(calls)
    /\ \E t \in Trees \ {Root}, b \in SceneBuffers : nodes[b].parent = t

\* ------------------------------------------------------------ C11
RECURSIVE EnabledBelow(_, _, _)
\* m lies in the subtree of n and every node from m up to n is enabled.
EnabledBelow(ns, n, m) ==
    /\ ns[m].enabled
    /\ \/ m = n
       \/ ns[m].parent # NULL /\ EnabledBelow(ns, n, ns[m].parent)

\* The box output so is told when node m is damaged whole.
DamageBoxOf(ns, so, m) ==
    LET b == NodeBox(ns, m)
    IN scale_box([b EXCEPT !.x = @ - so.x, !.y = @ - so.y], so.scale)

\* The operations on node n that damage it whole and leave its flags alone.
DamagesWhole(n) ==
    \/ \E x \in XCoords : wlr_scene_node_set_position(n, x, 0)
    \/ \E b \in {NULL, 1}, d \in DamageRegions :
          wlr_scene_buffer_set_buffer_with_damage(n, b, d)

\* C11: whole-node damage on a node that is disabled or has a disabled
\* ancestor adds nothing to any output's damage, with or without a damage
\* region in set_buffer_with_damage; whole-node damage on an enabled node adds
\* one box per output for each node of its subtree that is enabled down from
\* it, and none for a disabled descendant or anything below one.
C11_DisabledNoDamage ==
    /\ [](\A n \in LiveNodes(nodes) :
            LET d == scene_node_damage_whole(Begin, n).damage
                below == {m \in LiveNodes(nodes) : EnabledBelow(nodes, n, m)}
            IN IF ~wlr_scene_node_coords(nodes, n).enabled
               THEN /\ d = <<>>
                    /\ nodes[n].type = "buffer" =>
                           \A b \in BufferIds \cup {NULL}, r \in DamageRegions :
                               (b # NULL \/ r = <<>>) =>
                                   set_buffer_with_damage(Begin, n, b, r).damage = <<>>
               ELSE /\ Len(d) = Cardinality(below) * Len(outputs)
                    /\ \A k \in 1..Len(d) :
                           \E m \in below :
                               d[k].box = DamageBoxOf(nodes, OutputById(outputs, d[k].output), m))
    /\ [][\A n \in NodeIds :
              (Live(nodes, n) /\ ~wlr_scene_node_coords(nodes, n).enabled /\ DamagesWhole(n))
                  => damage' = <<>>]_vars

\* An output exists and the one buffer node, which holds a buffer and lies
\* under a disabled tree, has just been given a buffer: nothing was damaged.
C11_Witness ==
    /\ Len(outputs) = 1
    /\ ret.op = "set_buffer_with_damage" /\ ret.status = "ok"
    /\ damage = <<>>
    /\ \E n \in SceneBuffers :
          /\ nodes[n].enabled /\ nodes[n].buffer # NULL
          /\ nodes[n].parent # Root /\ ~nodes[nodes[n].parent].enabled

\* ------------------------------------------------------------ C12
\* The step leaves the scene as it was, damages nothing and emits nothing.
NothingHappened ==
    /\ nodes' = nodes /\ outputs' = outputs /\ n_locks' = n_locks
    /\ damage_highlight_regions' = damage_highlight_regions
    /\ damage' = <<>> /\ events' = <<>>

\* A setter called on node n with the value the field has.
SameValueOnNode(n) ==
    \/ ret'.op = "set_enabled" /\ wlr_scene_node_set_enabled(n, nodes[n].enabled)
    \/ ret'.op = "set_position" /\ wlr_scene_node_set_position(n, nodes[n].x, nodes[n].y)
    \/ ret'.op = "rect_set_size"
           /\ wlr_scene_rect_set_size(n, nodes[n].width, nodes[n].height)
    \/ ret'.op = "rect_set_color" /\ wlr_scene_rect_set_color(n, nodes[n].color)
    \/ ret'.op = "set_source_box" /\ wlr_scene_buffer_set_source_box(n, nodes[n].src_box)
    \/ ret'.op = "set_dest_size"
           /\ wlr_scene_buffer_set_dest_size(n, nodes[n].dst_width, nodes[n].dst_height)
    \/ ret'.op = "set_transform" /\ wlr_scene_buffer_set_transform(n, nodes[n].transform)
    \/ ret'.op = "set_buffer" /\ wlr_scene_buffer_set_buffer(n, nodes[n].buffer)
    \/ ret'.op = "reparent" /\ nodes[n].parent # NULL
           /\ wlr_scene_node_reparent(n, nodes[n].parent)

\* C12: a setter called with the value the field already has (set_enabled,
\* set_position, rect set_size and set_color, buffer set_source_box,
\* set_dest_size, set_transform, set_buffer, scene-output set_position), and
\* reparent to the node's own parent, leave the nodes, their order and the
\* outputs as they were, damage no output and emit no signal.
C12_NoOpSetters ==
    [][/\ \A n \in NodeIds : (Live(nodes, n) /\ SameValueOnNode(n)) => NothingHappened
       /\ \A i \in 1..Len(outputs) :
              (/\ ret'.op = "output_set_position"
               /\ wlr_scene_output_set_position(outputs[i].id, outputs[i].x, outputs[i].y))
                  => NothingHappened]_vars

\* set_transform has just returned without damage on an enabled buffer node
\* that holds a buffer and lies, with all its ancestors enabled, under an
\* output: a transform that changed would have damaged that output.
C12_Witness ==
    /\ ret.op = "set_transform" /\ damage = <<>> /\ Len(outputs) = 1
    /\ \E n \in SceneBuffers :
          /\ nodes[n].buffer # NULL
          /\ wlr_scene_node_coords(nodes, n).enabled

\* ------------------------------------------------------------ C13
\* The children of n's parent before and after the step.
SiblingsOf(n) == nodes[nodes[n].parent].children
SiblingsAfter(n) == nodes'[nodes[n].parent].children

\* The step moved nothing but n within its parent's list: the list has the
\* same members once each, the others keep their order, and every other node
\* is as it was.
OnlyMoved(n) ==
    /\ Len(SiblingsAfter(n)) = Len(SiblingsOf(n))
    /\ \A m \in NodeIds : Occurrences(SiblingsAfter(n), m) = Occurrences(SiblingsOf(n), m)
    /\ ListRemove(SiblingsAfter(n), n) = ListRemove(SiblingsOf(n), n)
    /\ \A m \in NodeIds : m # nodes[n].parent => nodes'[m] = nodes[m]

\* C13: place_above, place_below, raise_to_top and lower_to_bottom leave the
\* children list a permutation of what it was, with the relative order of
\* the other siblings unchanged; after place_above(n, s) n is immediately
\* after s, after place_below(n, s) immediately before s, after raise_to_top
\* last and after lower_to_bottom first; a call on a node that is already
\* there changes nothing and damages nothing.
C13_Restack ==
    [][\A n \in NodeIds :
          /\ \A sib \in NodeIds :
                (ret'.op = "place_above" /\ ret'.status = "ok"
                    /\ wlr_scene_node_place_above(n, sib)) =>
                   /\ OnlyMoved(n)
                   /\ IndexOf(SiblingsAfter(n), n) = IndexOf(SiblingsAfter(n), sib) + 1
                   /\ IndexOf(SiblingsOf(n), n) = IndexOf(SiblingsOf(n), sib) + 1
                          => (nodes' = nodes /\ damage' = <<>>)
          /\ \A sib \in NodeIds :
                (ret'.op = "place_below" /\ ret'.status = "ok"
                    /\ wlr_scene_node_place_below(n, sib)) =>
                   /\ OnlyMoved(n)
                   /\ IndexOf(SiblingsAfter(n), n) + 1 = IndexOf(SiblingsAfter(n), sib)
                   /\ IndexOf(SiblingsOf(n), n) + 1 = IndexOf(SiblingsOf(n), sib)
                          => (nodes' = nodes /\ damage' = <<>>)
          /\ (ret'.op = "raise_to_top" /\ wlr_scene_node_raise_to_top(n)) =>
                   /\ OnlyMoved(n)
                   /\ IndexOf(SiblingsAfter(n), n) = Len(SiblingsAfter(n))
                   /\ IndexOf(SiblingsOf(n), n) = Len(SiblingsOf(n))
                          => (nodes' = nodes /\ damage' = <<>>)
          /\ (ret'.op = "lower_to_bottom" /\ wlr_scene_node_lower_to_bottom(n)) =>
                   /\ OnlyMoved(n)
                   /\ IndexOf(SiblingsAfter(n), n) = 1
                   /\ IndexOf(SiblingsOf(n), n) = 1 => (nodes' = nodes /\ damage' = <<>>)]_vars

\* place_below has just moved a node among four siblings under an output.
C13_Witness ==
    /\ ret.op = "place_below" /\ ret.status = "ok" /\ damage # <<>>
    /\ \E p \in Trees : Len(nodes[p].children) = MaxOrderNodes

\* ------------------------------------------------------------ C14
\* The live buffer nodes of ns whose buffer field is b.
Holders(ns, b) == {n \in NodeIds : ns[n].type = "buffer" /\ ns[n].buffer = b}

\* C14: the scene holds as many locks on each platform buffer as there are
\* live buffer nodes whose buffer field is that buffer; a step that replaces
\* a node's buffer releases one lock on the old buffer, takes one on the new
\* and leaves every other count alone; setting the buffer a node already
\* has changes no count.
C14_LockAccounting ==
    /\ [](\A b \in BufferIds : n_locks[b] = Cardinality(Holders(nodes, b)))
    /\ [][\A n \in NodeIds :
              (/\ nodes[n].type = "buffer" /\ nodes'[n].type = "buffer"
               /\ nodes'[n].buffer # nodes[n].buffer) =>
                  \A b \in BufferIds :
                      n_locks'[b] = n_locks[b]
                          - (IF b = nodes[n].buffer THEN 1 ELSE 0)
                          + (IF b = nodes'[n].buffer THEN 1 ELSE 0)]_vars
    /\ [][\A n \in NodeIds :
              (/\ nodes[n].type = "buffer"
               /\ \/ wlr_scene_buffer_set_buffer(n, nodes[n].buffer)
                  \/ \E d \in DamageRegions :
                        wlr_scene_buffer_set_buffer_with_damage(n, nodes[n].buffer, d)) =>
                  n_locks' = n_locks]_vars

\* Two nodes hold the first buffer, which no node is created with, and a
\* third holds none: buffers have been replaced, and set_buffer ran last.
C14_Witness ==
    /\ ret.op = "set_buffer" /\ ret.status = "ok"
    /\ Cardinality(Holders(nodes, 1)) = 2 /\ n_locks[1] = 2
    /\ Cardinality(Holders(nodes, NULL)) = 1
    /\ n_locks[MaxBuffers] = 0

\* ------------------------------------------------------------ C15
RendererCalls ==
    {"wlr_renderer_begin", "wlr_renderer_clear", "render_rect", "render_texture",
     "wlr_render_rect", "wlr_renderer_end"}

\* How many of the first k calls of the log are calls of fn.
CountCalls(log, k, fn) == Cardinality({j \in 1..k : log[j].fn = fn})

\* How many of the first k calls opened a pending output state
\* (attach_buffer, or a damage attach_render that succeeded), and how many
\* closed one (commit, rollback).
CountOpened(log, k) ==
    Cardinality({j \in 1..k :
        \/ log[j].fn = "wlr_output_attach_buffer"
        \/ log[j].fn = "wlr_output_damage_attach_render" /\ log[j].result})

CountClosed(log, k) ==
    CountCalls(log, k, "wlr_output_commit") + CountCalls(log, k, "wlr_output_rollback")

\* C15: in the calls of one wlr_scene_output_commit, every renderer begin is
\* followed by exactly one renderer end and the renderer draws only in
\* between; every pending output state opened by attach_buffer or by a
\* successful damage attach_render is closed by exactly one commit or
\* rollback before another is opened; and the call returns with the renderer
\* ended and no pending state open.
C15_Scoped ==
    /\ \A k \in 0..Len(calls) :
          LET begun == CountCalls(calls, k, "wlr_renderer_begin")
                           - CountCalls(calls, k, "wlr_renderer_end")
              open == CountOpened(calls, k) - CountClosed(calls, k)
          IN /\ begun \in {0, 1} /\ open \in {0, 1}
             /\ (k > 0 /\ calls[k].fn \in RendererCalls
                       /\ calls[k].fn # "wlr_renderer_end") =>
                    begun = 1
             /\ k = Len(calls) => (begun = 0 /\ open = 0)

\* A commit whose scan-out buffer the output's test rejected, rolled back,
\* and which then rendered a frame and committed it.
C15_Witness ==
    /\ Called(calls, "wlr_output_attach_buffer")
    /\ Called(calls, "wlr_output_rollback")
    /\ Called(calls, "wlr_renderer_begin") /\ Called(calls, "render_texture")
    /\ calls[Len(calls)].fn = "wlr_output_commit"

\* ------------------------------------------------------------ C16
\* How often the step damaged the whole of output id.
WholeDamage(id) ==
    Cardinality({k \in 1..Len(damage') : damage'[k].whole /\ damage'[k].output = id})

\* C16 as stated: a wlr_scene_output_commit damages the whole output exactly
\* when its scan-out outcome differs from prev_scanout, and prev_scanout is
\* then the outcome.
C16_WholeIffChanged ==
    [][\A id \in OutputIds :
        CommitOf(id) =>
            /\ WholeDamage(id) > 0
                  <=> (ScanoutAccepted(calls') # OutputById(outputs, id).prev_scanout)
            /\ OutputById(outputs', id).prev_scanout = ScanoutAccepted(calls')]_vars

\* C16, amended: a wlr_scene_output_commit damages the whole output once when
\* its scan-out outcome differs from prev_scanout, and once more when the
\* debug mode is rerender and scan-out is not taken, and not otherwise;
\* prev_scanout is then the outcome.  So outside rerender mode the whole
\* output is damaged exactly when the outcome differs from prev_scanout, and
\* the first commit that is not scanned out after one that was damages it.
C16_WholeOnChange ==
    [][\A id \in OutputIds :
        CommitOf(id) =>
            /\ WholeDamage(id) =
                  (IF ScanoutAccepted(calls') # OutputById(outputs, id).prev_scanout
                   THEN 1 ELSE 0)
                  + (IF debug_damage_option = "rerender" /\ ~ScanoutAccepted(calls')
                     THEN 1 ELSE 0)
            /\ OutputById(outputs', id).prev_scanout = ScanoutAccepted(calls')
            /\ (debug_damage_option # "rerender" /\ WholeDamage(id) > 0 /\ Len(damage') > 0)
                  => damage'[1].whole]_vars

\* Outside rerender mode, a commit that was not scanned out has damaged the
\* whole output: the commit before it was scanned out.
C16_Witness ==
    /\ debug_damage_option = "none" /\ Len(outputs) = 1
    /\ Called(calls, "wlr_renderer_begin")
    /\ ~outputs[1].prev_scanout
    /\ \E k \in 1..Len(damage) : damage[k].whole

\* ------------------------------------------------------------ C17
\* The output_present signals of the log, and the textures drawn.
Presented(evs) == {k \in 1..Len(evs) : evs[k].sig = "output_present"}

\* The node whose buffer is attached for scan-out when the conditions hold.
ScanoutNode(id) ==
    CHOOSE n \in NodeIds :
        /\ Live(nodes, n) /\ wlr_scene_node_coords(nodes, n).enabled
        /\ BoxesIntersect(NodeBox(nodes, n), OutputBox(OutputById(outputs, id)))

\* C17 as stated: when the scan-out conditions hold and the output's test
\* and commit succeed, wlr_scene_output_commit returns true, makes no
\* renderer call and emits output_present once, on the scanned-out node;
\* when scan-out is attempted and fails, the scan-out path emits no
\* output_present: every output_present of the call comes with a texture
\* the composited path drew.
C17_PresentOnSuccess ==
    [][\A id \in OutputIds :
        (CommitOf(id) /\ ScanoutConditions(id)) =>
            IF ScanoutAccepted(calls')
            THEN /\ ret'.value
                 /\ \A k \in 1..Len(calls') : calls'[k].fn \notin RendererCalls
                 /\ Cardinality(Presented(events')) = 1
                 /\ \A k \in Presented(events') : events'[k].node = ScanoutNode(id)
            ELSE Cardinality(Presented(events'))
                     = CountCalls(calls', Len(calls'), "render_texture")]_vars

\* ------------------------------------------------------------ C18
\* The last call of the log that is a call of fn, 0 when there is none.
LastCall(log, fn) ==
    IF Called(log, fn) THEN CHOOSE k \in 1..Len(log) :
                                /\ log[k].fn = fn
                                /\ \A j \in (k + 1)..Len(log) : log[j].fn # fn
    ELSE 0

\* C18: in the calls of one wlr_scene_output_commit, a wlr_output_test that
\* rejects the scan-out buffer is followed by wlr_output_rollback and then by
\* the composited path's damage attach_render; the call returns false
\* exactly when attach_render fails or the final wlr_output_commit, the one
\* after the rendering, fails; and when attach_render succeeds and no frame
\* is needed it rolls back, calls the renderer not at all and returns true.
C18_LocalRecovery ==
    calls # <<>> =>
        LET attach == LastCall(calls, "wlr_output_damage_attach_render")
            last == calls[Len(calls)]
        IN /\ \A k \in 1..Len(calls) :
                 (calls[k].fn = "wlr_output_test" /\ ~calls[k].result) =>
                     /\ calls[k + 1].fn = "wlr_output_rollback"
                     /\ calls[k + 2].fn = "wlr_output_damage_attach_render"
           /\ ~ret.value <=>
                 /\ attach # 0
                 /\ \/ ~calls[attach].result
                    \/ \E k \in (attach + 1)..Len(calls) :
                          /\ calls[k].fn = "wlr_output_commit" /\ ~calls[k].result
                          /\ calls[k - 1].fn = "wlr_renderer_end"
           /\ (attach # 0 /\ calls[attach].result /\ ~calls[attach].arg) =>
                 /\ ret.value
                 /\ Len(calls) = attach + 1 /\ last.fn = "wlr_output_rollback"
                 /\ \A k \in 1..Len(calls) : calls[k].fn \notin RendererCalls

\* The output's test rejected the scan-out buffer, the output was rolled
\* back, and the composited path found that no frame was needed.
C18_Witness ==
    /\ Len(calls) = 5
    /\ calls[2].fn = "wlr_output_test" /\ ~calls[2].result
    /\ calls[3].fn = "wlr_output_rollback"
    /\ calls[4].fn = "wlr_output_damage_attach_render" /\ calls[4].result
    /\ ~calls[4].arg
    /\ calls[5].fn = "wlr_output_rollback"
    /\ ret.value

\* ------------------------------------------------------------ C19
\* Leaf a is met before leaf b by a depth-first walk in list order: below
\* some tree, a lies under an earlier child than b.
PreorderBefore(ns, a, b) ==
    \E t \in NodeIds : \E i, j \in 1..Len(ns[t].children) :
        /\ i < j
        /\ a \in DescendantsOrSelf(ns, ns[t].children[i])
        /\ b \in DescendantsOrSelf(ns, ns[t].children[j])

\* The iterator was called exactly once for each buffer node below n that no
\* disabled node separates from n, and for nothing else.
VisitedOnce(ns, n, cs) ==
    \A b \in NodeIds :
        Cardinality({i \in 1..Len(cs) : cs[i].arg.node = b})
            = IF ns[b].type = "buffer" /\ EnabledBelow(ns, n, b) THEN 1 ELSE 0

InListOrder(ns, cs) ==
    \A i, j \in 1..Len(cs) :
        i < j => PreorderBefore(ns, cs[i].arg.node, cs[j].arg.node)

\* Each call was given what wlr_scene_node_coords returns for its node.
AbsoluteCoords(ns, cs) ==
    \A i \in 1..Len(cs) :
        /\ cs[i].arg.lx = wlr_scene_node_coords(ns, cs[i].arg.node).lx
        /\ cs[i].arg.ly = wlr_scene_node_coords(ns, cs[i].arg.node).ly

\* C19 as stated: wlr_scene_node_for_each_buffer(n, iter), for any starting
\* node n, calls iter exactly once for every buffer node of n's subtree that
\* is not inside a disabled subtree, in depth-first list order, and gives
\* each the (lx, ly) that wlr_scene_node_coords returns for that node.
C19_ForEachBuffer ==
    [][\A n \in NodeIds :
          (ret'.op = "for_each_buffer" /\ wlr_scene_node_for_each_buffer(n)) =>
             /\ VisitedOnce(nodes, n, calls')
             /\ InListOrder(nodes, calls')
             /\ AbsoluteCoords(nodes, calls')]_vars

\* ------------------------------------------------------------ C20
\* Node m contains the point (lx, ly) of the scene: a rect by its box, a
\* buffer node by its callback at the point in the node's own coordinates
\* if it has one and by its box if not.
ContainsPoint(ns, m, lx, ly) ==
    IF ns[m].type = "buffer" /\ ns[m].point_accepts_input # <<>>
    THEN <<lx - wlr_scene_node_coords(ns, m).lx, ly - wlr_scene_node_coords(ns, m).ly>>
             \in ns[m].point_accepts_input[1]
    ELSE /\ NodeBox(ns, m).x <= lx /\ lx < NodeBox(ns, m).x + NodeBox(ns, m).width
         /\ NodeBox(ns, m).y <= ly /\ ly < NodeBox(ns, m).y + NodeBox(ns, m).height

\* The rect and buffer nodes enabled along their whole path that contain
\* the point.
Hits(ns, lx, ly) ==
    {m \in NodeIds : /\ ns[m].type \in {"rect", "buffer"}
                     /\ wlr_scene_node_coords(ns, m).enabled
                     /\ ContainsPoint(ns, m, lx, ly)}

\* r is the answer the claim describes for the point (lx, ly).
TopmostHit(ns, lx, ly, r) ==
    IF Hits(ns, lx, ly) = {} THEN r = <<>>
    ELSE /\ r # <<>>
         /\ r[1].node \in Hits(ns, lx, ly)
         /\ ns[r[1].node].type # "tree"
         /\ \A h \in Hits(ns, lx, ly) \ {r[1].node} : PreorderBefore(ns, h, r[1].node)
         /\ r[1].nx = lx - wlr_scene_node_coords(ns, r[1].node).lx
         /\ r[1].ny = ly - wlr_scene_node_coords(ns, r[1].node).ly

\* C20: wlr_scene_node_at on the scene root returns, among the rect and
\* buffer nodes that are enabled along their whole path and contain the point
\* (rect: its bounds; buffer: point_accepts_input if set, else its bounds),
\* the one the render traversal draws last, with (nx, ny) the point in that
\* node's own coordinates; it returns null when there is no such node, and
\* never a tree node.
C20_TopmostHit ==
    (ret.op = "node_at" /\ calls[1].arg.node = Root) =>
        TopmostHit(nodes, calls[1].arg.lx, calls[1].arg.ly, ret.value)

\* A probe of the root has returned a node away from the origin at a point
\* that two nodes contain, one of them a buffer node with a callback.
C20_Witness ==
    /\ ret.op = "node_at" /\ calls[1].arg.node = Root /\ ret.value # <<>>
    /\ wlr_scene_node_coords(nodes, ret.value[1].node).lx > 0
    /\ Cardinality(Hits(nodes, calls[1].arg.lx, calls[1].arg.ly)) >= 2
    /\ \E b \in Hits(nodes, calls[1].arg.lx, calls[1].arg.ly) :
          nodes[b].type = "buffer" /\ nodes[b].point_accepts_input # <<>>

\* ------------------------------------------------------------ C21
RECURSIVE SumOver(_, _, _)
\* The sum of field f of the nodes in S.
SumOver(ns, S, f) ==
    IF S = {} THEN 0
    ELSE LET m == CHOOSE m \in S : TRUE
         IN ns[m][f] + SumOver(ns, S \ {m}, f)

\* r holds, for node n other than the root, the coordinates of n's parent
\* plus n's own offset, and the AND of the flags of n and its ancestors.
CoordsBelowRoot(ns, n, r) ==
    /\ r.lx = SumOver(ns, AncestorsOrSelf(ns, ns[n].parent), "x") + ns[n].x
    /\ r.ly = SumOver(ns, AncestorsOrSelf(ns, ns[n].parent), "y") + ns[n].y
    /\ r.enabled <=> \A a \in AncestorsOrSelf(ns, n) : ns[a].enabled

\* C21 as stated: wlr_scene_node_coords returns (0, 0) for the root and
\* coords(parent) + (n.x, n.y) for any other node, and its flag is true
\* exactly when n and every ancestor up to the root are enabled.
C21_CoordsRootOrigin ==
    ret.op = "node_coords" =>
        IF calls[1].arg.node = Root
        THEN /\ ret.value.lx = 0 /\ ret.value.ly = 0
             /\ ret.value.enabled <=> nodes[Root].enabled
        ELSE CoordsBelowRoot(nodes, calls[1].arg.node, ret.value)

\* C21, amended: wlr_scene_node_coords returns the root's own offset
\* (root.x, root.y) for the root, which is (0, 0) as long as the root has not
\* been moved, and coords(parent) + (n.x, n.y) for any other node; its flag
\* is true exactly when n and every ancestor up to the root are enabled.
C21_Coords ==
    ret.op = "node_coords" =>
        IF calls[1].arg.node = Root
        THEN /\ ret.value.lx = nodes[Root].x /\ ret.value.ly = nodes[Root].y
             /\ ret.value.enabled <=> nodes[Root].enabled
        ELSE CoordsBelowRoot(nodes, calls[1].arg.node, ret.value)

\* The coordinates of a node two levels below a moved root were asked for,
\* with the node enabled and its parent disabled.
C21_Witness ==
    /\ ret.op = "node_coords"
    /\ nodes[Root].x > 0 /\ nodes[Root].y > 0
    /\ nodes[calls[1].arg.node].parent \notin {NULL, Root}
    /\ nodes[calls[1].arg.node].enabled
    /\ ~nodes[nodes[calls[1].arg.node].parent].enabled
    /\ ret.value.lx > nodes[Root].x

\* ------------------------------------------------------------ C22
\* The damage calls of d made on the accumulator of scene-output id.
DamageFor(d, id) == SelectSeq(d, LAMBDA e : e.output = id)

\* The call that adds box to the accumulator of scene-output so.
AddBox(so, box) == [output |-> so.id, whole |-> FALSE, box |-> box]

\* C22: wlr_scene_node_set_position to a different position, on an enabled
\* rect or buffer node whose ancestors are all enabled, adds to each
\* scene-output's accumulator exactly two boxes, the node's old box and then
\* its new box, each translated to the output and scaled with scale_box, and
\* every membership signal is emitted after both.
C22_MoveDamage ==
    [][\A n \in NonRoot, x \in MoveXs, y \in MoveYs :
          (/\ ret'.op = "set_position"
           /\ nodes[n].type \in {"rect", "buffer"}
           /\ wlr_scene_node_coords(nodes, n).enabled
           /\ (nodes[n].x # x \/ nodes[n].y # y)
           /\ wlr_scene_node_set_position(n, x, y)) =>
             /\ \A i \in 1..Len(outputs) :
                   DamageFor(damage', outputs[i].id) =
                       <<AddBox(outputs[i], DamageBoxOf(nodes, outputs[i], n)),
                         AddBox(outputs[i], DamageBoxOf(nodes', outputs[i], n))>>
             /\ \A k \in 1..Len(events') : events'[k].damaged = Len(damage')]_vars

\* Under two outputs, one of scale 2 at the origin, a 10x10 rect has moved
\* from (5, 5) to (6, 5): that output was told (10, 10, 20, 20) and then
\* (12, 10, 20, 20).
C22_Witness ==
    /\ ret.op = "set_position" /\ Len(outputs) = MaxMoveOutputs
    /\ \E i \in 1..Len(outputs) :
          /\ outputs[i].scale = 4 /\ outputs[i].x = 0 /\ outputs[i].y = 0
          /\ DamageFor(damage, outputs[i].id) =
                <<AddBox(outputs[i], [x |-> 10, y |-> 10, width |-> 20, height |-> 20]),
                  AddBox(outputs[i], [x |-> 12, y |-> 10, width |-> 20, height |-> 20])>>

\* ------------------------------------------------------------ C23
\* The cells of a region of one rectangle.
Cells(r) == ((r.x1)..(r.x2 - 1)) \X ((r.y1)..(r.y2 - 1))

\* The cells of region r that lie on buffer b, moved by (lx, ly).
ClippedAt(r, b, lx, ly) ==
    {<<c[1] + lx, c[2] + ly>> :
        c \in {c \in Cells(r) : /\ 0 <= c[1] /\ c[1] < wlr_buffer(b).width
                                /\ 0 <= c[2] /\ c[2] < wlr_buffer(b).height}}

\* The node is enabled with its ancestors, is not turned, has no source box
\* and has no destination size or that of buffer b.
PlainBufferNode(ns, n, b) ==
    /\ wlr_scene_node_coords(ns, n).enabled
    /\ ns[n].transform = 0 /\ wlr_fbox_empty(ns[n].src_box)
    /\ \/ ns[n].dst_width = 0 /\ ns[n].dst_height = 0
       \/ /\ ns[n].dst_width = wlr_buffer(b).width
          /\ ns[n].dst_height = wlr_buffer(b).height

\* C23: wlr_scene_buffer_set_buffer_with_damage with the buffer the node
\* already has and a region, on an enabled buffer node at (lx, ly) that is not
\* turned, has no source box and has no destination size or that of the
\* buffer, under a single output of scale 1 at the origin, adds to the output
\* exactly the region cut to the buffer's bounds and moved by (lx, ly).
C23_RegionTranslated ==
    [][\A n \in NonRoot, b \in BufferIds, d \in PartialRegions \ {<<>>} :
          (/\ ret'.op = "set_buffer_with_damage"
           /\ nodes[n].type = "buffer" /\ nodes[n].buffer = b
           /\ PlainBufferNode(nodes, n, b)
           /\ Len(outputs) = 1 /\ outputs[1].scale = 2
           /\ outputs[1].x = 0 /\ outputs[1].y = 0
           /\ wlr_scene_buffer_set_buffer_with_damage(n, b, d)) =>
             /\ Len(damage') = 1 /\ ~damage'[1].whole
             /\ Cells(damage'[1].box) =
                    ClippedAt(d[1], b, wlr_scene_node_coords(nodes, n).lx,
                        wlr_scene_node_coords(nodes, n).ly)]_vars

\* The wider buffer, on a node moved off the origin whose destination size is
\* the buffer's, was given again with a strip that leaves it on the right:
\* one cell was damaged.
C23_Witness ==
    /\ ret.op = "set_buffer_with_damage"
    /\ Len(outputs) = 1 /\ outputs[1].scale = 2 /\ outputs[1].x = 0
    /\ \E n \in SceneBuffers :
          /\ nodes[n].buffer = 1 /\ nodes[n].x > 0
          /\ PlainBufferNode(nodes, n, 1) /\ nodes[n].dst_width = wlr_buffer(1).width
          /\ Len(damage) = 1
          /\ Cells(damage[1].box) = {<<1 + nodes[n].x, 0>>}

\* ------------------------------------------------------------ C24
\* The operations the claim lists, by the name they return under.
VisibleChanges ==
    {"set_enabled", "set_position", "reparent", "place_above", "place_below",
     "raise_to_top", "lower_to_bottom", "rect_set_size", "rect_set_color",
     "set_dest_size", "set_transform", "set_source_box", "set_buffer",
     "set_buffer_with_damage", "node_destroy"}

\* Node m is drawn: a rect or buffer node enabled along its whole path.
Visible(ns, m) ==
    ns[m].type \in {"rect", "buffer"} /\ wlr_scene_node_coords(ns, m).enabled

\* Where node m is drawn and what it shows.
Appearance(ns, m) ==
    IF ~Visible(ns, m) THEN <<>>
    ELSE <<NodeBox(ns, m), ns[m].type, ns[m].color, ns[m].buffer,
           ns[m].transform, ns[m].src_box>>

\* The cells of a damage call: of a box, or of a region of one rectangle.
CellsOf(b) ==
    IF "x1" \in DOMAIN b THEN Cells(b)
    ELSE ((b.x)..(b.x + b.width - 1)) \X ((b.y)..(b.y + b.height - 1))

\* The pixels of scene-output so.
OutputPixels(so) ==
    (0..(Ceil(so.width * so.scale, 2) - 1)) \X (0..(Ceil(so.height * so.scale, 2) - 1))

\* The calls d cover, on scene-output so, the box node m has in ns.
Covered(d, ns, so, m) ==
    \/ \E k \in 1..Len(d) : d[k].output = so.id /\ d[k].whole
    \/ \A c \in CellsOf(DamageBoxOf(ns, so, m)) \cap OutputPixels(so) :
          \E k \in 1..Len(d) : d[k].output = so.id /\ c \in CellsOf(d[k].box)

\* C24 as stated: once an operation that changes where or whether a node is
\* visible or what it shows has returned, each output's accumulated damage
\* covers the box every affected node had before the operation, if it was
\* visible then, and the box it has after it, if it is visible now.
C24_DamageSound ==
    [][(ret'.op \in VisibleChanges /\ ret'.status = "ok" /\ outputs' = outputs) =>
          \A i \in 1..Len(outputs) : \A m \in NodeIds :
              Appearance(nodes, m) # Appearance(nodes', m) =>
                  /\ Visible(nodes, m) => Covered(damage', nodes, outputs[i], m)
                  /\ Visible(nodes', m) => Covered(damage', nodes', outputs[i], m)]_vars

\* ------------------------------------------------------------ C25
\* The textures the operation destroyed.
Destroyed(cs) ==
    {cs[k].arg : k \in {k \in 1..Len(cs) : cs[k].fn = "wlr_texture_destroy"}} \ {NULL}

\* C25: a buffer node's cached texture, when it has one, was made from the
\* buffer the node holds now.  A step that gives the node a different buffer
\* destroys the cached texture and leaves none; a step of
\* wlr_scene_buffer_set_buffer_with_damage with the buffer the node holds
\* destroys nothing, keeps the cached texture and, the node being enabled
\* along its path, adds the region, cut to the buffer and moved to the node,
\* to every output.
C25_TextureCache ==
    /\ [](\A n \in SceneBuffers : nodes[n].texture # NULL =>
              nodes[n].texture = nodes[n].buffer)
    /\ [][\A n \in NonRoot :
             /\ (nodes[n].type = "buffer" /\ nodes'[n].type = "buffer"
                    /\ nodes'[n].buffer # nodes[n].buffer) =>
                   /\ nodes'[n].texture = NULL
                   /\ Destroyed(calls') = {nodes[n].texture} \ {NULL}
             /\ \A d \in DamageRegions \ {<<>>} :
                   (/\ ret'.op = "set_buffer_with_damage"
                    /\ nodes[n].type = "buffer" /\ nodes[n].buffer # NULL
                    /\ wlr_scene_buffer_set_buffer_with_damage(n, nodes[n].buffer, d)) =>
                      /\ nodes'[n].texture = nodes[n].texture
                      /\ Destroyed(calls') = {}
                      /\ wlr_scene_node_coords(nodes, n).enabled =>
                            \A i \in 1..Len(outputs) :
                               /\ Len(DamageFor(damage', outputs[i].id)) = 1
                               /\ Cells(DamageFor(damage', outputs[i].id)[1].box) =
                                     ClippedAt(d[1], nodes[n].buffer,
                                         nodes[n].x - outputs[i].x, 0)]_vars

\* The buffer a node holds and has a texture of was given again with a
\* region, under two outputs, one of them moved: the texture is still cached
\* and both outputs were told.
C25_Witness ==
    /\ ret.op = "set_buffer_with_damage" /\ Len(damage) = MaxTextureOutputs
    /\ Len(outputs) = MaxTextureOutputs /\ outputs[1].x # outputs[2].x
    /\ \E n \in SceneBuffers : nodes[n].texture # NULL /\ nodes[n].x > 0

\* ------------------------------------------------------------ C26
\* r is v / 2 rounded to the nearest integer, halves away from zero.
IsRound(v, r) ==
    IF v >= 0 THEN 2 * r - 1 <= v /\ v < 2 * r + 1
    ELSE 2 * r - 1 < v /\ v <= 2 * r + 1

\* round(v / 2), found by its definition.
Rounded(v) == CHOOSE r \in (-(v * v) - 1)..(v * v + 1) : IsRound(v, r)

\* C26: for two boxes adjacent on an axis (b.x = a.x + a.width, or
\* b.y = a.y + a.height) and any scale, the boxes scale_box makes of them are
\* adjacent on that axis, with neither gap nor overlap; the scaled width is
\* round((x + width) * scale) - round(x * scale), and the height likewise.
C26_NoCracks ==
    ret.op = "scale_box" =>
        /\ ret.value.in.b.x = ret.value.in.a.x + ret.value.in.a.width =>
              ret.value.b.x = ret.value.a.x + ret.value.a.width
        /\ ret.value.in.b.y = ret.value.in.a.y + ret.value.in.a.height =>
              ret.value.b.y = ret.value.a.y + ret.value.a.height
        /\ ret.value.a.width =
              Rounded((ret.value.in.a.x + ret.value.in.a.width) * ret.value.in.scale)
                  - Rounded(ret.value.in.a.x * ret.value.in.scale)
        /\ ret.value.a.height =
              Rounded((ret.value.in.a.y + ret.value.in.a.height) * ret.value.in.scale)
                  - Rounded(ret.value.in.a.y * ret.value.in.scale)

\* Two boxes adjacent on both axes, the first at negative coordinates, were
\* scaled by 1.5, and the first did not grow by 1.5 times its width.
C26_Witness ==
    /\ ret.op = "scale_box" /\ ret.value.in.scale = 3
    /\ ret.value.in.a.x < 0 /\ ret.value.in.a.y < 0
    /\ ret.value.in.b.x = ret.value.in.a.x + ret.value.in.a.width
    /\ ret.value.in.b.y = ret.value.in.a.y + ret.value.in.a.height
    /\ ret.value.in.a.width = 2 /\ ret.value.a.width # 3

\* ------------------------------------------------------------ C27
\* The cells of the regions of a highlight list.
HighlightCells(regions) == UNION {regions[i].region : i \in 1..Len(regions)}

\* C27: after every wlr_scene_output_commit in debug mode highlight, each
\* region left in the scene's highlight list is non-empty and younger than
\* the fade-out time, the regions left are pairwise disjoint, and the damage
\* the step added to the output covers every region the step visited: the
\* tracker's current damage and the regions of the list, dropped or not.
C27_HighlightPruning ==
    /\ [](/\ \A i \in 1..Len(damage_highlight_regions) :
               /\ damage_highlight_regions[i].region # {}
               /\ damage_highlight_regions[i].age < HIGHLIGHT_DAMAGE_FADEOUT_TIME
          /\ \A i, j \in 1..Len(damage_highlight_regions) :
               i # j => damage_highlight_regions[i].region
                            \cap damage_highlight_regions[j].region = {})
    /\ [][\A id \in OutputIds, host \in HighlightReplies :
             (ret'.op = "output_commit" /\ wlr_scene_output_commit(id, host)) =>
                \E k \in 1..Len(damage') :
                   /\ damage'[k].output = id /\ ~damage'[k].whole
                   /\ host.current \cup HighlightCells(damage_highlight_regions)
                          \subseteq damage'[k].box]_vars

\* A commit has left two regions in the list and dropped at least one cell:
\* the output was told more than the list holds now.
C27_Witness ==
    /\ ret.op = "output_commit"
    /\ Len(damage_highlight_regions) = 2
    /\ \E k \in 1..Len(damage) :
          /\ ~damage[k].whole
          /\ damage[k].box # HighlightCells(damage_highlight_regions)

\* ------------------------------------------------------------ C28
\* Region r has every cell of buffer b.
CoversBuffer(r, b) ==
    /\ r.x1 <= 0 /\ r.y1 <= 0
    /\ r.x2 >= wlr_buffer(b).width /\ r.y2 >= wlr_buffer(b).height

\* C28 as stated: for any transform, source box and destination size of an
\* enabled buffer node, wlr_scene_buffer_set_buffer_with_damage with a region
\* that covers the whole buffer adds to each output exactly the box that
\* damaging the whole node would add, and with no destination size and no
\* source box the scale from the buffer to the scene is 1 on both axes.
\* The boxes are compared on the outputs of scale 1 (2 halves), where the
\* two ways of rounding a scaled box agree.
C28_PartialMatchesWhole ==
    [][\A n \in NonRoot, b \in BufferIds, d \in PartialRegions \ {<<>>} :
          (/\ ret'.op = "set_buffer_with_damage"
           /\ nodes[n].type = "buffer"
           /\ wlr_scene_node_coords(nodes, n).enabled
           /\ CoversBuffer(d[1], b)
           /\ wlr_scene_buffer_set_buffer_with_damage(n, b, d)) =>
             /\ \A i \in 1..Len(outputs) : outputs[i].scale = 2 =>
                   /\ Len(DamageFor(damage', outputs[i].id)) = 1
                   /\ Cells(DamageFor(damage', outputs[i].id)[1].box) =
                         CellsOf(DamageBoxOf(nodes', outputs[i], n))
             /\ (/\ nodes[n].dst_width = 0 /\ nodes[n].dst_height = 0
                 /\ wlr_fbox_empty(nodes[n].src_box)) =>
                   LET scale == damage_scale(nodes[n], b,
                                    damage_source_box(nodes[n], b))
                   IN scale.x.num = scale.x.den /\ scale.y.num = scale.y.den]_vars

\* ------------------------------------------------------------ C29
\* The output_present signals of the log that are emitted on node n.
PresentedOn(evs, n) == {k \in Presented(evs) : evs[k].node = n}

\* C29 as stated: within one wlr_scene_output_commit call output_present is
\* emitted at most once on each buffer node, whatever the output's test and
\* commit calls return.
C29_PresentAtMostOnce ==
    \A n \in NodeIds : Cardinality(PresentedOn(events, n)) <= 1

\* ------------------------------------------------------------ C30
\* C30 as stated: output_present(o) is emitted on a buffer node only if the
\* node is enabled along its whole path, holds a buffer and intersects o's
\* viewport, that is only if bit o.index is set in the node's active_outputs
\* when the commit emits it.
C30_PresentOnlyActive ==
    \A k \in Presented(events) :
        LET n == events[k].node
            so == OutputById(outputs, events[k].arg)
        IN /\ wlr_scene_node_coords(nodes, n).enabled
           /\ nodes[n].buffer # NULL
           /\ BoxesIntersect(NodeBox(nodes, n), OutputBox(so))
           /\ so.index \in events[k].active

\* ------------------------------------------------------------ C31
\* The output_leave signals of the log.
Left(evs) == {k \in 1..Len(evs) : evs[k].sig = "output_leave"}

\* C31 as stated: whenever output_leave(o) is delivered on a buffer node, by
\* the recomputation of the memberships, by the destruction of a
\* scene-output or by the destruction of the node, the node's active_outputs
\* read by the observer does not hold o's index and its primary_output is
\* not o.
C31_LeftWhenToldSo ==
    [][\A k \in Left(events') :
          /\ OutputIndex(outputs, outputs', events'[k].arg) \notin events'[k].active
          /\ events'[k].primary # events'[k].arg]_vars
====
